---------------------------- MODULE Spec2Model ----------------------------
(***************************************************************************)
(* A model of the esdown (es6now) compiler core: the scanner and the       *)
(* recursive-descent parser of build/es6now.js, the line-synchronising     *)
(* replacer of src/Replacer.js and the translator of src/Translator.js.    *)
(*                                                                         *)
(* Source text is a sequence of one-character strings; offsets are         *)
(* 0-based as in the source, so character i of the text is inp[i + 1].     *)
(***************************************************************************)
EXTENDS Integers, Sequences, FiniteSets, TLC

VARIABLES
    mode,            \* which entry point of the library is running
    input,           \* Scanner.input / Parser.input: the source text
    scanner,         \* the Scanner object's fields
    root,            \* the node returned by Parser.Script / Parser.Module
    contextStack,    \* Parser.contextStack (the last element is Parser.context)
    peek0,           \* Parser.peek0
    peek1,           \* Parser.peek1
    endOffset,       \* Parser.endOffset
    callStack,       \* the parser methods in progress (the JS call stack)
    node,            \* the node returned by the method that returned last
    status,          \* "parsing", "done", "failed" (fail() threw), "outside"
    chunks,          \* how many pieces of source text the input consists of
    complete,        \* the scanner has met the end of the input
    lastStmt,        \* the break/continue statement checked by the last step
    lastPop,         \* what the last popContext() dropped and restored
    rep,             \* Replacer: the tree being visited and its output
    tr,              \* Translator: input, options and outputs
    err,             \* the SyntaxError thrown by Parser.fail
    rt               \* the runtime library: promises, generators, observers

parseVars == <<contextStack, peek0, peek1, endOffset, callStack, node, status,
               chunks, complete, lastStmt, lastPop>>
vars == <<mode, input, scanner, root, contextStack, peek0, peek1, endOffset,
          callStack, node, status, chunks, complete, lastStmt, lastPop, rep,
          tr, err, rt>>

NULL == "null"            \* JS null
UNDEF == "undefined"      \* JS undefined (a read past the end of a string)

-----------------------------------------------------------------------------
(* Bounds of the model *)

MaxScanLen == 4     \* longest source text given to the scanner
MaxUnpeeks == 1     \* most times the parser goes back to a token kept
MaxChunks == 3      \* most pieces of source text given to the parser

-----------------------------------------------------------------------------
(* Characters *)

DQ == "\""
BS == "\\"
BT == "BACKTICK"     \* the character ` (not writable in a TLA+ string)
NL == "\n"
CR == "\r"
SP == " "
TAB == "\t"

Letters ==
    {"a", "b", "c", "d", "e", "f", "g", "h", "i", "j", "k", "l", "m", "n",
     "o", "p", "q", "r", "s", "t", "u", "v", "w", "x", "y", "z",
     "A", "B", "C", "D", "E", "F", "G", "H", "I", "J", "K", "L", "M", "N",
     "O", "P", "Q", "R", "S", "T", "U", "V", "W", "X", "Y", "Z"}

reservedWord ==
    {"break", "case", "catch", "class", "const", "continue", "debugger",
     "default", "delete", "do", "else", "enum", "export", "extends", "false",
     "finally", "for", "function", "if", "import", "in", "instanceof", "new",
     "null", "return", "super", "switch", "this", "throw", "true", "try",
     "typeof", "var", "void", "while", "with"}

strictReservedWord ==
    {"implements", "private", "public", "interface", "package", "let",
     "protected", "static", "yield"}
OctalDigits == {"0", "1", "2", "3", "4", "5", "6", "7"}
DecimalDigits == OctalDigits \cup {"8", "9"}
HexChars == DecimalDigits \cup {"a", "b", "c", "d", "e", "f",
                              "A", "B", "C", "D", "E", "F"}

\* LookupTable.charTable
charTable(c) ==
    CASE c \in {TAB, SP} -> "WHITESPACE"
      [] c \in {CR, NL} -> "NEWLINE"
      [] c \in DecimalDigits \ {"0"} -> "DECIMAL_DIGIT"
      [] c \in {"{", "[", "]", "(", ")", ";", ",", "?", ":"} -> "PUNCTUATOR_CHAR"
      [] c \in {"<", ">", "+", "-", "*", "%", "&", "|", "^", "!", "~", "="}
            -> "PUNCTUATOR"
      [] c = "." -> "DOT"
      [] c = "/" -> "SLASH"
      [] c = "}" -> "LBRACE"
      [] c = "0" -> "ZERO"
      [] c \in {"'", DQ} -> "STRING"
      [] c = BT -> "TEMPLATE"
      [] c \in {"$", "_", BS} \cup Letters -> "IDENTIFIER"
      [] OTHER -> UNDEF

\* this.input[i]: undefined past the end
At(inp, i) == IF i >= 0 /\ i < Len(inp) THEN inp[i + 1] ELSE UNDEF

isIdentifierPart(c) ==
    c \in Letters \cup DecimalDigits \cup {"$", "_", BS}

isNewlineChar(c) == c \in {CR, NL}

isPunctuatorNext(c) == c \in {"+", "-", "&", "|", "<", ">", "=", "."}

isNumberFollow(c) ==
    c = UNDEF \/ ~(c \in Letters \cup DecimalDigits \cup {"$", "_", BS})

\* multiCharPunctuator.test(op), op a sequence of characters
multiCharPunctuator(op) ==
    \/ Len(op) = 2 /\ op[1] \in {"-", "+"} /\ op[2] \in {"-", "+"}
    \/ Len(op) = 2 /\ op[1] \in {"&", "|"} /\ op[2] \in {"&", "|"}
    \/ op \in {<<"<", "<">>, <<"<", "<", "=">>}
    \/ op \in {<<">", ">">>, <<">", ">", ">">>, <<">", ">", "=">>,
               <<">", ">", ">", "=">>}
    \/ Len(op) = 3 /\ op[1] \in {"!", "="} /\ op[2] = "=" /\ op[3] = "="
    \/ op = <<"=", ">">>
    \/ op \in {<<".", ".">>, <<".", ".", ".">>}
    \/ Len(op) = 2 /\ op[2] = "="
         /\ op[1] \in {"-", "+", "&", "|", "<", ">", "!", "=", "*", "^",
                       "%", "/"}

\* The name of a punctuator token: its characters joined
RECURSIVE Join(_)
Join(op) == IF op = << >> THEN "" ELSE Head(op) \o Join(Tail(op))


-----------------------------------------------------------------------------
(* Scanner (build/es6now.js).  A scanner value holds the Scanner object's   *)
(* fields; value is kept for identifiers only, and number and regExpFlags  *)
(* are left out.  Every token method returns R(scanner', type).             *)

R(s, t) == [sc |-> s, ret |-> t]

\* A JavaScript call evaluates its argument once: F applied to the value of e
Bind(e, F(_)) == CHOOSE r \in {F(q) : q \in {e}} : TRUE


\* Scanner.constructor
NewScanner(off) ==
    [offset |-> off, lines |-> <<-1>>, strict |-> FALSE, type |-> "",
     start |-> 0, end |-> 0, value |-> "", templateEnd |-> FALSE,
     newlineBefore |-> FALSE, error |-> ""]

Adv(s, n) == [s EXCEPT !.offset = @ + n]

\* Scanner.addLineBreak
addLineBreak(s, off) == [s EXCEPT !.lines = Append(@, off)]

\* Scanner.Error
\* (variant: the error is recorded but no token type is returned)
ErrorNoType(s, msg) ==
    R([s EXCEPT !.offset = @ + 1,
                !.error = IF msg # "" THEN msg ELSE @], UNDEF)

Error(s, msg) ==
    R([s EXCEPT !.offset = @ + 1,
                !.error = IF msg # "" THEN msg ELSE @], "ILLEGAL")

\* The offset after the longest run of characters of `set' starting at o
\* (the loops of readRange, readInteger, Whitespace and LegacyOctalNumber).
RECURSIVE SkipRun(_, _, _)
SkipRun(inp, o, set) ==
    IF At(inp, o) \in set THEN SkipRun(inp, o + 1, set) ELSE o

\* Scanner.readHex: the offset after at most maxLen hex characters
\* (maxLen = 0: no limit), starting at o with n characters read so far.
RECURSIVE HexEnd(_, _, _, _)
HexEnd(inp, o, n, maxLen) ==
    IF At(inp, o) \notin HexChars THEN o
    ELSE IF n + 1 = maxLen THEN o + 1
    ELSE HexEnd(inp, o + 1, n + 1, maxLen)

readHex(inp, s, maxLen) ==
    LET e == HexEnd(inp, s.offset, 0, maxLen)
    IN  R([s EXCEPT !.offset = e], e - s.offset)      \* ret: hex.length

\* Scanner.readOctalEscape: octalEscape is /^(?:[0-3][0-7]{0,2}|[4-7][0-7]?)/
readOctalEscape(inp, s) ==
    LET o == s.offset
        c0 == At(inp, o)
        c1 == At(inp, o + 1)
        c2 == At(inp, o + 2)
        n  == IF c0 \in {"0", "1", "2", "3"}
              THEN IF c1 \in OctalDigits
                   THEN IF c2 \in OctalDigits THEN 3 ELSE 2
                   ELSE 1
              ELSE IF c0 \in {"4", "5", "6", "7"}
              THEN IF c1 \in OctalDigits THEN 2 ELSE 1
              ELSE 0
        isZero == n = 1 /\ c0 = "0"
    IN  R([s EXCEPT !.offset = o + n], IF isZero THEN "0" ELSE "octal")

\* Scanner.readIdentifierEscape: ret is NULL or "char"
readIdentifierEscape(inp, s) ==
    LET s1 == Adv(s, 1)
    IN  IF At(inp, s.offset) # "u" THEN R(s1, NULL)
        ELSE IF At(inp, s1.offset) = "{"
        THEN LET h  == readHex(inp, Adv(s1, 1), 0)
                 s2 == Adv(h.sc, 1)
             IN  IF At(inp, h.sc.offset) # "}" THEN R(s2, NULL)
                 ELSE R(s2, "char")
        ELSE LET h == readHex(inp, s1, 4)
             IN  IF h.ret < 4 THEN R(h.sc, NULL) ELSE R(h.sc, "char")

\* Scanner.readStringEscape: ret is "char" (a non-empty string), "" (a line
\* continuation), NULL, or UNDEF (the backslash was the last character).
readStringEscape(inp, s) ==
    LET chr == At(inp, s.offset + 1)
        s2  == Adv(s, 2)
    IN  CASE chr \in {"t", "b", "v", "f", "r", "n"} -> R(s2, "char")
          [] chr = CR ->
                LET s3 == addLineBreak(s2, s2.offset - 1)
                IN  R(IF At(inp, s3.offset) = NL THEN Adv(s3, 1) ELSE s3, "")
          [] chr = NL -> R(addLineBreak(s2, s2.offset - 1), "")
          [] chr \in OctalDigits ->
                LET e == readOctalEscape(inp, Adv(s2, -1))
                IN  IF e.ret = "0" THEN R(e.sc, "char")
                    ELSE IF e.sc.strict
                    THEN R([e.sc EXCEPT !.error =
                               "Octal literals are not allowed in strict mode"],
                           NULL)
                    ELSE R(e.sc, "char")
          [] chr = "x" ->
                LET h == readHex(inp, s2, 2)
                IN  IF h.ret < 2 THEN R(h.sc, NULL) ELSE R(h.sc, "char")
          [] chr = "u" ->
                IF At(inp, s2.offset) = "{"
                THEN LET h  == readHex(inp, Adv(s2, 1), 0)
                         s3 == Adv(h.sc, 1)
                     IN  IF At(inp, h.sc.offset) # "}" THEN R(s3, NULL)
                         ELSE R(s3, "char")
                ELSE LET h == readHex(inp, s2, 4)
                     IN  IF h.ret < 4 THEN R(h.sc, NULL) ELSE R(h.sc, "char")
          [] chr = UNDEF -> R(s2, UNDEF)
          [] OTHER -> R(s2, "char")

\* Scanner.Whitespace
Whitespace(inp, s) ==
    R([s EXCEPT !.offset = SkipRun(inp, s.offset + 1, {TAB, SP})], NULL)

\* Scanner.Newline
Newline(inp, s) ==
    LET s1 == Adv(addLineBreak(s, s.offset), 1)
        s2 == IF At(inp, s.offset) = CR /\ At(inp, s1.offset) = NL
              THEN Adv(s1, 1) ELSE s1
    IN  R([s2 EXCEPT !.newlineBefore = TRUE], NULL)

\* Scanner.PunctuatorChar
PunctuatorChar(inp, s) == R(Adv(s, 1), At(inp, s.offset))

\* Scanner.Punctuator: the while loop, op the characters taken so far
RECURSIVE PunctuatorLoop(_, _, _)
PunctuatorLoop(inp, s, op) ==
    LET chr == At(inp, s.offset)
    IN  IF isPunctuatorNext(chr) /\ multiCharPunctuator(Append(op, chr))
        THEN PunctuatorLoop(inp, Adv(s, 1), Append(op, chr))
        ELSE IF op = <<".", ".">> THEN R(Adv(s, -1), ".")
        ELSE R(s, Join(op))

Punctuator(inp, s) == PunctuatorLoop(inp, Adv(s, 1), <<At(inp, s.offset)>>)

\* Scanner.Template: the while loop
RECURSIVE TemplateLoop(_, _)
TemplateLoop(inp, s) ==
    LET chr == At(inp, s.offset)
    IN  CASE chr = UNDEF -> Error(s, "")
          [] chr = BT -> R([Adv(s, 1) EXCEPT !.templateEnd = TRUE], "TEMPLATE")
          [] chr = "$" /\ At(inp, s.offset + 1) = "{" ->
                R([Adv(s, 2) EXCEPT !.templateEnd = FALSE], "TEMPLATE")
          [] chr = BS ->
                LET e == readStringEscape(inp, s)
                IN  IF e.ret \in {NULL, "", UNDEF} THEN Error(e.sc, "")
                    ELSE TemplateLoop(inp, e.sc)
          [] OTHER -> TemplateLoop(inp, Adv(s, 1))

Template(inp, s) == TemplateLoop(inp, Adv(s, 1))

\* Scanner.String: the while loop
RECURSIVE StringLoop(_, _, _)
StringLoop(inp, s, delim) ==
    LET chr == At(inp, s.offset)
    IN  CASE chr = UNDEF -> Error(s, "")
          [] chr = delim -> R(Adv(s, 1), "STRING")
          [] isNewlineChar(chr) -> Error(s, "")
          [] chr = BS ->
                LET e == readStringEscape(inp, s)
                IN  IF e.ret = NULL THEN Error(e.sc, "")
                    ELSE StringLoop(inp, e.sc, delim)
          [] OTHER -> StringLoop(inp, Adv(s, 1), delim)

String(inp, s) == StringLoop(inp, Adv(s, 1), At(inp, s.offset))

\* The while loop of Scanner.Identifier and Scanner.IdentifierName; id is the
\* name read so far, "?" standing for a character written as an escape.
RECURSIVE IdentifierLoop(_, _, _)
IdentifierLoop(inp, s, id) ==
    LET chr == At(inp, s.offset)
    IN  IF ~isIdentifierPart(chr) THEN R([s EXCEPT !.value = id], "IDENTIFIER")
        ELSE IF chr = BS
        THEN LET e == readIdentifierEscape(inp, Adv(s, 1))
             IN  IF e.ret = NULL THEN Error(e.sc, "")
                 ELSE IdentifierLoop(inp, e.sc, id \o "?")
        ELSE IdentifierLoop(inp, Adv(s, 1), id \o chr)

\* Scanner.Identifier: a reserved word is its own token type, and leaves
\* this.value as it was
Identifier(inp, s) ==
    LET r == IdentifierLoop(inp, s, "")
    IN  IF r.ret = "IDENTIFIER"
           /\ (r.sc.value \in reservedWord
               \/ (s.strict /\ r.sc.value \in strictReservedWord))
        THEN R([r.sc EXCEPT !.value = s.value], r.sc.value)
        ELSE r

\* Scanner.IdentifierName
IdentifierName(inp, s) == IdentifierLoop(inp, s, "")

\* Scanner.RegularExpression: the while loop.  s.offset is already past chr.
RECURSIVE RegularExpressionLoop(_, _, _, _)
RegularExpressionLoop(inp, s, backslash, inClass) ==
    LET chr == At(inp, s.offset)
        s1  == Adv(s, 1)
    IN  IF chr = UNDEF \/ isNewlineChar(chr) THEN Error(s1, "")
        ELSE IF backslash THEN RegularExpressionLoop(inp, s1, FALSE, inClass)
        ELSE IF chr = "[" THEN RegularExpressionLoop(inp, s1, FALSE, TRUE)
        ELSE IF chr = "]" /\ inClass
        THEN RegularExpressionLoop(inp, s1, FALSE, FALSE)
        ELSE IF chr = "/" /\ ~inClass
        THEN IF isIdentifierPart(At(inp, s1.offset))
             THEN R(IdentifierName(inp, s1).sc, "REGEX")
             ELSE R(s1, "REGEX")
        ELSE IF chr = BS THEN RegularExpressionLoop(inp, s1, TRUE, inClass)
        ELSE RegularExpressionLoop(inp, s1, FALSE, inClass)

RegularExpression(inp, s) ==
    RegularExpressionLoop(inp, Adv(s, 1), FALSE, FALSE)

NumberFollow(inp, s) ==
    IF isNumberFollow(At(inp, s.offset)) THEN R(s, "NUMBER") ELSE Error(s, "")

\* Scanner.LegacyOctalNumber
LegacyOctalNumber(inp, s) ==
    LET s1 == [s EXCEPT !.offset = SkipRun(inp, s.offset + 1, OctalDigits)]
    IN  IF s1.strict
        THEN Error(s1, "Octal literals are not allowed in strict mode")
        ELSE NumberFollow(inp, s1)

\* Scanner.Number
Number(inp, s) ==
    LET o1 == SkipRun(inp, s.offset, DecimalDigits)
        o2 == IF At(inp, o1) = "." THEN SkipRun(inp, o1 + 1, DecimalDigits)
              ELSE o1
        o3 == IF At(inp, o2 + 1) \in {"+", "-"} THEN o2 + 2 ELSE o2 + 1
        o4 == SkipRun(inp, o3, DecimalDigits)
    IN  IF At(inp, o2) \in {"e", "E"}
        THEN IF o4 = o3 THEN Error([s EXCEPT !.offset = o4], "")
             ELSE NumberFollow(inp, [s EXCEPT !.offset = o4])
        ELSE NumberFollow(inp, [s EXCEPT !.offset = o2])

\* Scanner.BinaryNumber
BinaryNumber(inp, s) ==
    NumberFollow(inp, [s EXCEPT !.offset = SkipRun(inp, s.offset + 2, {"0", "1"})])

\* Scanner.OctalNumber
OctalNumber(inp, s) ==
    NumberFollow(inp, [s EXCEPT !.offset = SkipRun(inp, s.offset + 2, OctalDigits)])

\* Scanner.HexNumber
HexNumber(inp, s) == NumberFollow(inp, readHex(inp, Adv(s, 2), 0).sc)

\* Scanner.LineComment
LineComment(inp, s) ==
    LET RECURSIVE Run(_)
        Run(o) == IF At(inp, o) = UNDEF \/ isNewlineChar(At(inp, o)) THEN o
                  ELSE Run(o + 1)
    IN  R([s EXCEPT !.offset = Run(s.offset + 2)], "COMMENT")

\* blockCommentPattern.exec from offset o: the index of the next line
\* terminator or "*/", or -1
RECURSIVE BlockCommentMatch(_, _)
BlockCommentMatch(inp, o) ==
    IF o >= Len(inp) THEN -1
    ELSE IF isNewlineChar(At(inp, o)) THEN o
    ELSE IF At(inp, o) = "*" /\ At(inp, o + 1) = "/" THEN o
    ELSE BlockCommentMatch(inp, o + 1)

\* Scanner.BlockComment: the while (true) loop
RECURSIVE BlockCommentLoop(_, _)
BlockCommentLoop(inp, s) ==
    LET m == BlockCommentMatch(inp, s.offset)
    IN  IF m < 0 THEN Error(s, "")
        ELSE IF At(inp, m) = "*" THEN R([s EXCEPT !.offset = m + 2], "COMMENT")
        ELSE LET len == IF At(inp, m) = CR /\ At(inp, m + 1) = NL THEN 2 ELSE 1
             IN  BlockCommentLoop(inp,
                     addLineBreak([s EXCEPT !.offset = m + len,
                                            !.newlineBefore = TRUE], m))

BlockComment(inp, s) == BlockCommentLoop(inp, Adv(s, 2))

\* Scanner.Start.  Characters outside charTable (the Unicode classes) are
\* not in the model's alphabets; any other character is an error.
Start(inp, s, context) ==
    LET c    == At(inp, s.offset)
        next == At(inp, s.offset + 1)
    IN  CASE charTable(c) = "PUNCTUATOR_CHAR" -> PunctuatorChar(inp, s)
          [] charTable(c) = "WHITESPACE" -> Whitespace(inp, s)
          [] charTable(c) = "IDENTIFIER" ->
                IF context = "name" THEN IdentifierName(inp, s)
                ELSE Identifier(inp, s)
          [] charTable(c) = "LBRACE" ->
                IF context = "template" THEN Template(inp, s)
                ELSE PunctuatorChar(inp, s)
          [] charTable(c) = "PUNCTUATOR" -> Punctuator(inp, s)
          [] charTable(c) = "NEWLINE" -> Newline(inp, s)
          [] charTable(c) = "DECIMAL_DIGIT" -> Number(inp, s)
          [] charTable(c) = "TEMPLATE" -> Template(inp, s)
          [] charTable(c) = "STRING" -> String(inp, s)
          [] charTable(c) = "ZERO" ->
                CASE next \in {"X", "x"} -> HexNumber(inp, s)
                  [] next \in {"B", "b"} -> BinaryNumber(inp, s)
                  [] next \in {"O", "o"} -> OctalNumber(inp, s)
                  [] next \in OctalDigits -> LegacyOctalNumber(inp, s)
                  [] OTHER -> Number(inp, s)
          [] charTable(c) = "DOT" ->
                IF next \in DecimalDigits THEN Number(inp, s)
                ELSE Punctuator(inp, s)
          [] charTable(c) = "SLASH" ->
                IF next = "/" THEN LineComment(inp, s)
                ELSE IF next = "*" THEN BlockComment(inp, s)
                ELSE IF context = "div" THEN Punctuator(inp, s)
                ELSE RegularExpression(inp, s)
          [] OTHER -> Error(s, "")

\* Scanner.next: the while (type === null) loop
RECURSIVE nextLoop(_, _, _)
nextLoop(inp, s, context) ==
    Bind(IF s.offset >= Len(inp) THEN R(s, "EOF") ELSE Start(inp, s, context),
         LAMBDA r :
            IF r.ret = NULL THEN nextLoop(inp, r.sc, context)
            ELSE [r.sc EXCEPT !.type = r.ret, !.start = s.offset,
                              !.end = r.sc.offset])

\* Scanner.next
next(inp, s, context) ==
    nextLoop(inp,
             [s EXCEPT !.newlineBefore = IF s.type # "COMMENT" THEN FALSE ELSE @,
                       !.error = "",
                       !.value = ""],
             context)


-----------------------------------------------------------------------------
(* Values of the variables an entry point does not use *)

\* null in a token slot (peek0, peek1); strict records the mode the scanner
\* was in when it scanned the token
NoToken ==
    [type |-> NULL, start |-> 0, end |-> 0, value |-> "",
     newlineBefore |-> FALSE, strict |-> FALSE]
NoExpr == [type |-> NULL, start |-> 0, end |-> 0]
NoNode == [type |-> NULL, start |-> 0, end |-> 0, expression |-> NoExpr]
NoRoot == [type |-> NULL, start |-> 0, end |-> 0]
NoStmt ==
    [keyword |-> NULL, label |-> NULL, inIteration |-> FALSE,
     inSwitch |-> FALSE, inLabel |-> FALSE]
NoSaved == [context |-> NULL, strict |-> FALSE, depth |-> 0]
NoPop ==
    [fn |-> NULL, saved |-> NoSaved, restored |-> NoSaved,
     invalidNodes |-> << >>]
IdleScanner == NewScanner(0)
IdleRep == [phase |-> "idle"]
IdleTr == [phase |-> "idle"]
IdleRt == [phase |-> "idle"]
NoError ==
    [thrown |-> FALSE, message |-> "", line |-> 0, column |-> UNDEF,
     lineOffset |-> 0, startOffset |-> 0, endOffset |-> 0]

ParserIdle ==
    /\ contextStack = << >>
    /\ peek0 = NoToken
    /\ peek1 = NoToken
    /\ endOffset = 0
    /\ callStack = << >>
    /\ node = NoNode
    /\ status = "idle"
    /\ chunks = 0
    /\ complete = FALSE
    /\ lastStmt = NoStmt
    /\ lastPop = NoPop

\* All texts of at most n characters of the alphabet S
Texts(S, n) == UNION {[1..k -> S] : k \in 0..n}

-----------------------------------------------------------------------------
(* The scanner run over a text: new Scanner(input), then next(context)      *)
(* until EOF, with the contexts a caller may pass.                          *)

ScanAlphabet == {"a", "0", "1", DQ, BS, BT, "/", "*", NL, SP}
Contexts == {"", "div", "name", "template"}

InitScan ==
    /\ mode = "scan"
    /\ input \in Texts(ScanAlphabet, MaxScanLen)
    /\ scanner = NewScanner(0)
    /\ root = NoRoot
    /\ ParserIdle
    /\ rep = IdleRep
    /\ tr = IdleTr
    /\ err = NoError
    /\ rt = IdleRt

ScanNext ==
    /\ mode \in {"scan", "rescan"}
    /\ scanner.type # "EOF"
    /\ ~err.thrown
    /\ \E context \in Contexts, strict \in BOOLEAN :
           scanner' = next(input, [scanner EXCEPT !.strict = strict], context)
    /\ UNCHANGED <<mode, input, root, parseVars, rep, tr, err, rt>>

\* Token constructor: the fields of the scanner copied at the time of the
\* scan; strict is the scanner's mode during that scan
Token(s) ==
    [type |-> s.type, start |-> s.start, end |-> s.end, value |-> s.value,
     newlineBefore |-> s.newlineBefore, strict |-> s.strict]

\* Parser.unpeek
unpeek(p) ==
    IF p.peek0 # NoToken
    THEN [p EXCEPT !.sc.offset = p.peek0.start,
                   !.peek0 = NoToken,
                   !.peek1 = NoToken]
    ELSE p

\* String.prototype.slice(from, to) for 0 <= from
slice(inp, from, to) ==
    SubSeq(inp, from + 1, IF to > Len(inp) THEN Len(inp) ELSE to)

\* Scanner.raw(token) as the claim has it: the span of the token passed in
rawOfToken(inp, s, token) == slice(inp, token.start, token.end)

\* Scanner.raw(token): the slice is taken with this.start and this.end
raw(inp, s, token) == slice(inp, s.start, s.end)

\* Parser.nextToken: new Token(this.scanner), kept by the caller
KeepToken ==
    /\ mode = "rescan"
    /\ scanner.type # ""
    /\ peek0 = NoToken
    /\ ~err.thrown
    /\ peek0' = Token(scanner)
    /\ UNCHANGED <<mode, input, scanner, root, contextStack, peek1, endOffset,
                   callStack, node, status, chunks, complete, lastStmt,
                   lastPop, rep, tr, err, rt>>

\* scanner.raw(token) for the token kept
Raw ==
    /\ mode = "rescan"
    /\ peek0 # NoToken
    /\ rt.phase = "scan"
    /\ rt' = [rt EXCEPT !.phase = "raw", !.token = peek0,
                        !.text = raw(input, scanner, peek0)]
    /\ UNCHANGED <<mode, input, scanner, root, parseVars, rep, tr, err>>

\* Parser.unpeek: the scanner goes back to the start of the token kept,
\* which the caller scans again (in template context, after ${ })
Unpeek ==
    /\ mode = "rescan"
    /\ peek0 # NoToken
    /\ rt.unpeeks < MaxUnpeeks
    /\ rt' = [rt EXCEPT !.unpeeks = @ + 1]
    /\ LET q == unpeek([sc |-> scanner, peek0 |-> peek0, peek1 |-> peek1])
       IN  /\ scanner' = q.sc
           /\ peek0' = q.peek0
           /\ peek1' = q.peek1
    /\ UNCHANGED <<mode, input, root, contextStack, endOffset, callStack,
                   node, status, chunks, complete, lastStmt, lastPop, rep, tr,
                   err>>

\* Identifiers, strings, templates and newlines
RescanAlphabet == {"a", DQ, BS, BT, NL}

\* new Scanner(input) in a parser that keeps tokens, goes back to them and
\* asks for their text
InitRescan ==
    /\ mode = "rescan"
    /\ input \in Texts(RescanAlphabet, MaxScanLen)
    /\ scanner = NewScanner(0)
    /\ root = NoRoot
    /\ ParserIdle
    /\ rep = IdleRep
    /\ tr = IdleTr
    /\ err = NoError
    /\ rt = [phase |-> "scan", unpeeks |-> 0, token |-> NoToken,
             text |-> << >>]

NextRescan ==
    \/ ScanNext
    \/ KeepToken
    \/ Raw
    \/ Unpeek

SpecRescan == InitRescan /\ [][NextRescan]_vars

\* binarySearch(array, val): array is 0-based in the source
RECURSIVE binarySearchLoop(_, _, _, _)
binarySearchLoop(array, val, left, right) ==
    IF left > right THEN left
    ELSE LET mid == (left + right) \div 2
             test == array[mid + 1]
         IN  IF val > test THEN binarySearchLoop(array, val, mid + 1, right)
             ELSE IF val < test
             THEN binarySearchLoop(array, val, left, mid - 1)
             ELSE mid

binarySearch(array, val) == binarySearchLoop(array, val, 0, Len(array) - 1)

\* Scanner.position(token)
position(s, token) ==
    LET offset == token.start
        line == binarySearch(s.lines, offset)
        pos == s.lines[line]          \* this.lines[line - 1]
    IN  [line |-> line, column |-> offset - pos, startOffset |-> offset,
         endOffset |-> token.end, lineOffset |-> pos + 1]

\* Parser.fail(msg, loc): the SyntaxError it throws.  err.column is assigned
\* from err.column, a property a new SyntaxError does not have
SyntaxError(s, msg, loc) ==
    LET pos == position(s, loc)
    IN  [thrown |-> TRUE, message |-> msg, line |-> pos.line,
         column |-> UNDEF, lineOffset |-> pos.lineOffset,
         startOffset |-> pos.startOffset, endOffset |-> pos.endOffset]

\* The parser rejects the token just scanned: fail("Unexpected token " +
\* type, token)
Fail ==
    /\ mode = "scan"
    /\ scanner.type # ""
    /\ ~err.thrown
    /\ err' = SyntaxError(scanner, "Unexpected token " \o scanner.type,
                          scanner)
    /\ UNCHANGED <<mode, input, scanner, root, parseVars, rep, tr, rt>>

NextScan == ScanNext \/ Fail

SpecScan == InitScan /\ [][NextScan]_vars

\* C9: for every token the scanner produces, ILLEGAL tokens for unterminated
\* strings, templates, regular expressions and comments at the end of the
\* input included, start <= end <= input.length.
TokenSpanInInput ==
    mode = "scan" =>
        /\ scanner.start <= scanner.end
        /\ scanner.end <= Len(input)

\* The token types next() can return: a punctuator or reserved word is its
\* own type, so a type is any string; undefined and null are not types
Scanned == mode = "scan" /\ scanner.type # ""

\* No character c in the text from offset `from' on
NoneAfter(c, from) ==
    \A i \in from .. Len(input) - 1 : At(input, i) # c

\* The token begins a string or template that the rest of the text does not
\* close
UnterminatedLiteral ==
    /\ At(input, scanner.start) \in {DQ, BT}
    /\ NoneAfter(At(input, scanner.start), scanner.start + 1)

\* The token begins with a backslash that does not start a unicode escape,
\* or is a string whose first character is an octal escape in strict mode
MalformedEscape ==
    \/ /\ At(input, scanner.start) = BS
       /\ At(input, scanner.start + 1) # "u"
    \/ /\ At(input, scanner.start) = DQ
       /\ At(input, scanner.start + 1) = BS
       /\ At(input, scanner.start + 2) = "1"
       /\ scanner.strict

\* The token is a legacy octal number scanned in strict mode
StrictOctalNumber ==
    /\ scanner.strict
    /\ At(input, scanner.start) = "0"
    /\ At(input, scanner.start + 1) \in OctalDigits

ErrorLocatesToken ==
    err.thrown =>
        /\ err.message # ""
        /\ err.line \in Nat /\ err.line >= 1
        /\ err.column # UNDEF /\ err.column >= 1
        /\ err.startOffset = scanner.start
        /\ err.endOffset = scanner.end
        /\ err.lineOffset <= err.startOffset

\* The parts of C12 that do not involve the column
ErrorHasLineAndOffsets ==
    err.thrown =>
        /\ err.message # ""
        /\ err.line \in Nat /\ err.line >= 1
        /\ err.startOffset = scanner.start
        /\ err.endOffset = scanner.end
        /\ err.lineOffset <= err.startOffset

\* C22: raw(token) is the text from token.start to token.end of the token
\* passed in, whatever token the scanner is at when it is called.
RawReturnsTokenSlice ==
    (mode = "rescan" /\ rt.phase = "raw") =>
        rt.text = rawOfToken(input, scanner, rt.token)

\* How many line terminators the text has before offset
NewlinesBefore(inp, offset) ==
    Cardinality({i \in 1 .. Len(inp) : i <= offset /\ inp[i] = NL})

\* C23: the line table is in strictly ascending order, and the line that
\* binary search finds for the token just scanned is one plus the number of
\* line terminators before the token, also after unpeek and a second scan.
LineTableCountsNewlines ==
    mode = "rescan" =>
        /\ \A i \in 1 .. Len(scanner.lines) - 1 :
               scanner.lines[i] < scanner.lines[i + 1]
        /\ scanner.type # "" =>
               binarySearch(scanner.lines, scanner.start)
                   = 1 + NewlinesBefore(input, scanner.start)

\* C23 without the order of the table
LinesCountNewlines ==
    (mode = "rescan" /\ scanner.type # "") =>
        binarySearch(scanner.lines, scanner.start)
            = 1 + NewlinesBefore(input, scanner.start)

\* C23, the order of the table alone
LineTableAscending ==
    mode = "rescan" =>
        \A i \in 1 .. Len(scanner.lines) - 1 :
            scanner.lines[i] < scanner.lines[i + 1]

-----------------------------------------------------------------------------
(* Parser (build/es6now.js) as a step machine.  callStack holds the parser  *)
(* methods in progress, each with the place (pc) it has reached; a step is  *)
(* the code of the innermost method up to its next call, return or token    *)
(* fetch.  The token buffer is filled by the step Scan, which is the call   *)
(* of nextToken inside peekToken or readToken.  The source text is written  *)
(* as it is read: when the scanner has reached the end of the text, Scan    *)
(* first appends the next chunk of source text, or leaves the text alone,   *)
(* which ends the input.                                                    *)

\* Parser.nextToken: scan, skipping comments; the scanner after the scan
RECURSIVE nextToken(_, _, _)
nextToken(inp, s, context) ==
    Bind(next(inp, s, context), LAMBDA n :
        IF n.type = "COMMENT" THEN nextToken(inp, n, context) ELSE n)

\* The parser's fields as one value, for the operators below
Cur ==
    [sc |-> scanner, peek0 |-> peek0, peek1 |-> peek1, endOffset |-> endOffset,
     contextStack |-> contextStack, callStack |-> callStack, node |-> node,
     status |-> status, root |-> root, lastStmt |-> NoStmt, lastPop |-> NoPop]

\* The fields written back
Commit(q) ==
    /\ scanner' = q.sc
    /\ peek0' = q.peek0
    /\ peek1' = q.peek1
    /\ endOffset' = q.endOffset
    /\ contextStack' = q.contextStack
    /\ callStack' = q.callStack
    /\ node' = q.node
    /\ status' = q.status
    /\ root' = q.root
    /\ lastStmt' = q.lastStmt
    /\ lastPop' = q.lastPop
    /\ UNCHANGED <<mode, input, chunks, complete, rep, tr, err, rt>>

\* Parser.fail: throws a SyntaxError; the parse is over
fail(p) == [p EXCEPT !.status = "failed"]

\* A construct of the language that this model does not follow further
outside(p) == [p EXCEPT !.status = "outside"]

\* Parser.readToken(type) when peek0 holds a token; type "" is "any type"
readToken(p, type) ==
    LET q == [p EXCEPT !.peek0 = p.peek1, !.peek1 = NoToken,
                       !.endOffset = p.peek0.end]
    IN  IF type # "" /\ p.peek0.type # type THEN fail(q) ELSE q

\* Parser.context: the last element of contextStack
Context(p) == p.contextStack[Len(p.contextStack)]

SetContext(p, c) ==
    [p EXCEPT !.contextStack = [@ EXCEPT ![Len(@)] = c]]

\* A property of a JS object used as a map, 0 for an absent one
Get(map, key) == IF key \in DOMAIN map THEN map[key] ELSE 0

Put(map, key, val) ==
    [k \in DOMAIN map \cup {key} |-> IF k = key THEN val ELSE map[k]]

\* Parser.pushContext
pushContext(p, isFunction, isStrict) ==
    LET c == [strict |-> isStrict \/ (IF p.contextStack = << >> THEN FALSE
                                       ELSE Context(p).strict),
              isFunction |-> isFunction,
              labelSet |-> << >>,
              switchDepth |-> 0,
              invalidNodes |-> << >>]
    IN  [p EXCEPT !.contextStack = Append(@, c), !.sc.strict = c.strict]

\* popContext without its last statement: the scanner keeps the mode of
\* the context that is gone
popContextOnly(p) ==
    [p EXCEPT !.contextStack = SubSeq(@, 1, Len(@) - 1)]

\* Parser.popContext
popContext(p) ==
    LET rest == SubSeq(p.contextStack, 1, Len(p.contextStack) - 1)
    IN  [p EXCEPT !.contextStack = rest,
                  !.sc.strict = IF rest = << >> THEN FALSE
                                ELSE rest[Len(rest)].strict]

\* Parser.setStrict
setStrict(p) ==
    [SetContext(p, [Context(p) EXCEPT !.strict = TRUE])
        EXCEPT !.sc.strict = TRUE]

\* Parser.addInvalidNode
addInvalidNode(p, error) ==
    SetContext(p, [Context(p) EXCEPT !.invalidNodes = Append(@, error)])

\* Validate.checkInvalidNodes: every node of the list still carries its error
checkInvalidNodes(p) ==
    IF Context(p).invalidNodes = << >> THEN p
    ELSE fail(p)

\* The innermost method in progress
Top ==
    IF callStack = << >> THEN [fn |-> NULL, pc |-> NULL]
    ELSE callStack[Len(callStack)]

Frame(p) == p.callStack[Len(p.callStack)]

\* A method calls another: it will go on at pc when the callee returns
Call(p, pc, callee) ==
    [p EXCEPT !.callStack =
        Append([@ EXCEPT ![Len(@)].pc = pc], callee)]

\* The innermost method goes on at pc, with its frame replaced by f
Goto(p, f) == [p EXCEPT !.callStack = [@ EXCEPT ![Len(@)] = f]]

\* The innermost method returns the node n
Return(p, n) ==
    [p EXCEPT !.callStack = SubSeq(@, 1, Len(@) - 1), !.node = n]

\* A node: its type and span and, for an ExpressionStatement, its expression
Node(type, start, end) ==
    [type |-> type, start |-> start, end |-> end, expression |-> NoExpr]

\* The innermost method hands over to another method and returns what that
\* method returns
TailCall(p, callee) == Goto(p, callee)

\* The frames of the methods
ScriptFrame(fn) == [fn |-> fn, pc |-> "start", start |-> 0]

StatementListFrame(prologue, isModule) ==
    [fn |-> "StatementList", pc |-> "loop", prologue |-> prologue,
     isModule |-> isModule, directive |-> NULL]

DeclarationFrame(isModule) ==
    [fn |-> "Declaration", pc |-> "start", isModule |-> isModule]

StatementFrame == [fn |-> "Statement", pc |-> "start"]

\* fn is one of the statement or declaration methods; label and keyword are
\* its local variables of these names
StartFrame(fn) ==
    [fn |-> fn, pc |-> "start", start |-> 0, label |-> NULL, keyword |-> NULL]

\* Expression (comma TRUE) or AssignmentExpression (comma FALSE), with the
\* methods between them and PrimaryExpression
\* isSuper: the object of the member expression is `super'
ExpressionFrame(comma) ==
    [fn |-> "Expression", pc |-> "primary", comma |-> comma, type |-> NULL,
     start |-> 0, isSuper |-> FALSE]

\* The methods that push a context
ContextMethods == {"FunctionBody", "ClassBody", "ModuleBody"}

\* The context of the peek the method in frame f makes next, NULL if it goes
\* on without looking at the next token
PeekContext(f) ==
    CASE f.fn \in {"Script", "Module"} /\ f.pc = "start" -> ""
      [] f.fn = "StatementList" /\ f.pc = "loop" -> ""
      [] f.fn \in {"Declaration", "Statement", "EmptyStatement"} -> ""
      [] f.fn = "ExpressionStatement" -> ""
      [] f.fn = "WhileStatement" /\ f.pc \in {"paren", "close"} -> ""
      [] f.fn = "BreakOrContinueStatement" /\ f.pc \in {"label", "semicolon"}
            -> ""
      [] f.fn = "Block" /\ f.pc = "close" -> ""
      [] f.fn = "SwitchStatement"
            /\ f.pc \in {"paren", "close", "brace", "loop"} -> ""
      [] f.fn = "SwitchCase" /\ f.pc \in {"start", "colon", "loop"} -> ""
      [] f.fn = "FunctionDeclaration" /\ f.pc = "name" -> ""
      [] f.fn = "FormalParameters" -> ""
      [] f.fn \in ContextMethods /\ f.pc \in {"open", "close"} -> ""
      [] f.fn = "ClassDeclaration" /\ f.pc \in {"name", "extends"} -> ""
      [] f.fn = "ClassBody" /\ f.pc = "loop" -> "name"
      [] f.fn = "ClassElement" /\ f.pc = "start" -> "name"
      [] f.fn = "MethodDefinition" /\ f.pc \in {"start", "modifier"} -> "name"
      [] f.fn = "ModuleNode" /\ f.pc = "after" -> ""
      [] f.fn = "ObjectExpression" /\ f.pc \in {"loop", "property"} -> "name"
      [] f.fn = "ObjectExpression" /\ f.pc \in {"colon", "shorthand"} -> ""
      [] f.fn = "Expression" /\ f.pc \in {"primary", "yield"} -> ""
      [] f.fn = "Expression" /\ f.pc = "property" -> "name"
      [] f.fn = "Expression" /\ f.pc = "operator" -> "div"
      [] OTHER -> NULL

\* The context of the peek at index 1 the method in frame f makes when the
\* next token is tok, NULL if it makes none
Peek1Context(f, tok) ==
    CASE f.fn \in {"Declaration", "Statement"} /\ tok.type = "IDENTIFIER"
            -> "div"
      [] f.fn = "Expression" /\ f.pc = "primary" /\ tok.type = "IDENTIFIER"
            -> "div"
      [] f.fn = "ClassElement" /\ f.pc = "start" /\ tok.value = "static"
            -> "name"
      [] f.fn = "ObjectExpression" /\ f.pc = "property" /\ tok.type # "}"
            -> "name"
      [] OTHER -> NULL

\* The method in progress is at a peekToken or readToken that has to scan
NeedToken ==
    \/ peek0 = NoToken /\ PeekContext(Top) # NULL
    \/ peek0 # NoToken /\ peek1 = NoToken /\ Peek1Context(Top, peek0) # NULL

\* The method fn is the innermost one, at pc, with the tokens it looks at
Ready(fn, pc) ==
    /\ mode = "parse"
    /\ status = "parsing"
    /\ Top.fn = fn
    /\ Top.pc = pc
    /\ ~NeedToken

\* Parser.Script up to its call of StatementList
Script ==
    /\ Ready("Script", "start")
    /\ Commit(Call(Goto(Cur, [Top EXCEPT !.start = peek0.start]), "end",
                   StatementListFrame(TRUE, FALSE)))

\* Parser.Module up to its call of StatementList: modules are always strict
Module ==
    /\ Ready("Module", "start")
    /\ Commit(Call(setStrict(Goto(Cur, [Top EXCEPT !.start = peek0.start])),
                   "end", StatementListFrame(TRUE, TRUE)))

\* Parser.Script and Parser.Module after StatementList: the node returned
ScriptEnd ==
    /\ Top.fn \in {"Script", "Module"}
    /\ Ready(Top.fn, "end")
    /\ Commit([Cur EXCEPT
                 !.root = [type |-> Top.fn, start |-> Top.start,
                           end |-> endOffset],
                 !.callStack = << >>,
                 !.status = "done"])

\* Parser.StatementList: the loop goes on with a call of Declaration
StatementList ==
    /\ Ready("StatementList", "loop")
    /\ peek0.type \notin {"EOF", "}"}
    /\ Commit(Call(Cur, "element", DeclarationFrame(Top.isModule)))

\* Parser.StatementList: the loop ends; checkInvalidNodes, return
StatementListEnd ==
    /\ Ready("StatementList", "loop")
    /\ peek0.type \in {"EOF", "}"}
    /\ Commit(LET q == checkInvalidNodes(Cur)
              IN  IF q.status = "failed" THEN q
                  ELSE Return(q, Node("StatementList", 0, 0)))

\* input.slice(start + 1, end - 1)
Directive(n) == Join(SubSeq(input, n.start + 2, n.end - 1))

\* Parser.StatementList after Declaration has returned: the directive check
StatementListElement ==
    /\ Ready("StatementList", "element")
    /\ Commit(IF Top.prologue /\ node.type = "ExpressionStatement"
                 /\ node.expression.type = "String"
              THEN IF Directive(node.expression) = "use strict"
                   THEN Goto(setStrict(Cur),
                             [Top EXCEPT !.pc = "loop",
                                         !.directive = "use strict"])
                   ELSE Goto(Cur, [Top EXCEPT !.pc = "loop"])
              ELSE Goto(Cur, [Top EXCEPT !.pc = "loop",
                                         !.prologue = FALSE]))

\* Statement keywords whose statements the model does not follow
OtherStatements ==
    {"var", "return", "throw", "debugger", "if", "do", "for", "with", "try"}

\* Parser.Statement: the switch on the next token
StatementSwitch(p) ==
    LET type == p.peek0.type
    IN  IF type = "IDENTIFIER"
        THEN IF p.peek1.type = ":"
             THEN TailCall(p, StartFrame("LabelledStatement"))
             ELSE TailCall(p, StartFrame("ExpressionStatement"))
        ELSE IF type = "{" THEN TailCall(p, StartFrame("Block"))
        ELSE IF type = ";" THEN TailCall(p, StartFrame("EmptyStatement"))
        ELSE IF type \in {"break", "continue"}
        THEN TailCall(p, StartFrame("BreakOrContinueStatement"))
        ELSE IF type = "while" THEN TailCall(p, StartFrame("WhileStatement"))
        ELSE IF type = "switch" THEN TailCall(p, StartFrame("SwitchStatement"))
        ELSE IF type \in OtherStatements THEN outside(p)
        ELSE TailCall(p, StartFrame("ExpressionStatement"))

\* Parser.peekModule
peekModule(p) ==
    /\ p.peek0.value = "module"
    /\ ~p.peek1.newlineBefore
    /\ p.peek1.type \in {"IDENTIFIER", "STRING"}

\* Parser.Declaration, and Parser.Statement when it falls through to it
Declaration ==
    /\ Ready("Declaration", "start")
    /\ Commit(LET type == peek0.type
              IN  IF type = "function"
                  THEN TailCall(Cur, StartFrame("FunctionDeclaration"))
                  ELSE IF type = "class"
                  THEN TailCall(Cur, StartFrame("ClassDeclaration"))
                  ELSE IF type \in {"let", "const", "import"}
                          \/ (type = "export" /\ Top.isModule)
                  THEN outside(Cur)
                  ELSE IF type = "IDENTIFIER" /\ peekModule(Cur)
                  THEN TailCall(Cur, StartFrame("ModuleNode"))
                  ELSE StatementSwitch(Cur))

\* Parser.Statement
Statement ==
    /\ Ready("Statement", "start")
    /\ Commit(StatementSwitch(Cur))

\* Parser.Semicolon, peek0 holding the next token
Semicolon(p) ==
    IF p.peek0.type = ";"
       \/ ~(p.peek0.type = "}" \/ p.peek0.type = "EOF"
            \/ p.peek0.newlineBefore)
    THEN readToken(p, ";")
    ELSE p

\* Parser.ExpressionStatement up to its call of Expression
ExpressionStatement ==
    /\ Ready("ExpressionStatement", "start")
    /\ Commit(Call(Goto(Cur, [Top EXCEPT !.start = peek0.start]), "semicolon",
                   ExpressionFrame(TRUE)))

\* Parser.ExpressionStatement after Expression: Semicolon, return
ExpressionStatementEnd ==
    /\ Ready("ExpressionStatement", "semicolon")
    /\ Commit(LET q == Semicolon(Cur)
              IN  IF q.status = "failed" THEN q
                  ELSE Return(q, [type |-> "ExpressionStatement",
                                  start |-> Top.start, end |-> q.endOffset,
                                  expression |->
                                      [type |-> node.type,
                                       start |-> node.start,
                                       end |-> node.end]]))

\* Parser.EmptyStatement
EmptyStatement ==
    /\ Ready("EmptyStatement", "start")
    /\ Commit(LET q == Semicolon(Cur)
              IN  IF q.status = "failed" THEN q
                  ELSE Return(q, Node("EmptyStatement", peek0.start,
                                      q.endOffset)))

\* Tokens that begin an expression the model does not follow: the unary and
\* update operators, new, and the primary expressions other than
\* identifiers, literals and object literals
OtherExpressions ==
    {"++", "--", "delete", "void", "typeof", "!", "~", "+", "-",
     "new", "function", "class", "TEMPLATE", "(", "[", "null",
     "true", "false", "this"}

\* The frame of ObjectExpression, and of PropertyDefinition within it: list
\* is list.length, name and flag are those of the property in progress
ObjectExpressionFrame ==
    [fn |-> "ObjectExpression", pc |-> "start", start |-> 0, list |-> 0,
     nameSet |-> << >>, name |-> NULL, flag |-> 0]

\* Parser.Expression or AssignmentExpression down to PrimaryExpression
PrimaryExpression ==
    /\ Ready("Expression", "primary")
    /\ Commit(LET type == peek0.type
                  f == [Top EXCEPT !.pc = "operator", !.start = peek0.start]
              IN  IF type \in OtherExpressions THEN outside(Cur)
                  ELSE IF type = "yield"
                  THEN Goto(readToken(Cur, "yield"),
                            [f EXCEPT !.pc = "yield"])
                  ELSE IF type = "super"
                  THEN Goto(readToken(Cur, "super"),
                            [f EXCEPT !.type = "SuperExpression"])
                  ELSE IF type = "NUMBER"
                  THEN Goto(readToken(Cur, "NUMBER"),
                            [f EXCEPT !.type = "Number"])
                  ELSE IF type = "STRING"
                  THEN Goto(readToken(Cur, "STRING"),
                            [f EXCEPT !.type = "String"])
                  ELSE IF type = "REGEX"
                  THEN Goto(readToken(Cur, ""),
                            [f EXCEPT !.type = "RegularExpression"])
                  ELSE IF type = "IDENTIFIER"
                  THEN IF peek1.type = "=>" THEN outside(Cur)
                       ELSE Goto(readToken(Cur, "IDENTIFIER"),
                                 [f EXCEPT !.type = "Identifier"])
                  ELSE IF type = "{"
                  THEN Call(Goto(Cur, f), "object", ObjectExpressionFrame)
                  ELSE fail(Cur))

\* Parser.YieldExpression after read("yield"): the operand is an
\* AssignmentExpression
YieldExpression ==
    /\ Ready("Expression", "yield")
    /\ Commit(IF peek0.type = "*" THEN outside(Cur)
              ELSE Call(Cur, "yielded", ExpressionFrame(FALSE)))

\* Parser.YieldExpression after its operand: AssignmentExpression returns
\* the node, and Expression looks for a comma
YieldExpressionEnd ==
    /\ Ready("Expression", "yielded")
    /\ Commit(IF peek0.type = "," /\ Top.comma THEN outside(Cur)
              ELSE Return(Cur, Node("YieldExpression", Top.start, endOffset)))

\* Parser.MemberExpression after read("."): IdentifierName
MemberExpressionProperty ==
    /\ Ready("Expression", "property")
    /\ Commit(Goto(readToken(Cur, "IDENTIFIER"),
                   [Top EXCEPT !.pc = "operator",
                               !.type = "MemberExpression",
                               !.isSuper = (Top.type = "SuperExpression")]))

\* Parser.PrimaryExpression after ObjectExpression has returned
PrimaryExpressionObject ==
    /\ Ready("Expression", "object")
    /\ Commit(Goto(Cur, [Top EXCEPT !.pc = "operator",
                                    !.type = "ObjectExpression"]))

\* isAssignment
isAssignment(op) ==
    op \in {"=", "*=", "&=", "^=", "|=", "<<=", ">>=", ">>>=", "%=", "+=",
            "-=", "/="}

\* getPrecedence
getPrecedence(op) ==
    CASE op = "||" -> 1
      [] op = "&&" -> 2
      [] op = "|" -> 3
      [] op = "^" -> 4
      [] op = "&" -> 5
      [] op \in {"==", "!=", "===", "!=="} -> 6
      [] op \in {"<=", ">=", ">", "<", "instanceof", "in"} -> 7
      [] op \in {">>>", ">>", "<<"} -> 8
      [] op \in {"+", "-"} -> 9
      [] op \in {"*", "/", "%"} -> 10
      [] OTHER -> 0

\* The peek("div") after a primary expression, in MemberExpression,
\* UnaryExpression, PartialBinaryExpression, ConditionalExpression,
\* AssignmentExpression and Expression: with no operator there, the
\* expression is the primary expression
ExpressionEnd ==
    /\ Ready("Expression", "operator")
    /\ Commit(LET type == peek0.type
              IN  IF type = "."
                  THEN Goto(readToken(Cur, "."),
                            [Top EXCEPT !.pc = "property"])
                  ELSE IF type \in {"[", "(", "TEMPLATE"} THEN outside(Cur)
                  ELSE IF Top.type = "SuperExpression" THEN fail(Cur)
                  ELSE IF \/ type = "?"
                     \/ (type \in {"++", "--"} /\ ~peek0.newlineBefore)
                     \/ getPrecedence(type) # 0
                     \/ isAssignment(type)
                     \/ (type = "," /\ Top.comma)
                  THEN outside(Cur)
                  ELSE Return(Cur, Node(Top.type, Top.start, endOffset)))

\* Parser.StatementWithLabel(label) up to its call of Statement, in the
\* method that calls it; label is NULL for the body of a loop
StatementWithLabel(p, label) ==
    LET name == IF label = NULL THEN "" ELSE label
        labelSet == Context(p).labelSet
        count == IF Get(labelSet, name) = 0 THEN 1 ELSE Get(labelSet, name)
    IN  IF Get(labelSet, name) # 0 /\ label # NULL THEN fail(p)
        ELSE Call(SetContext(Goto(p, [Frame(p) EXCEPT !.label = name]),
                             [Context(p) EXCEPT
                                !.labelSet = Put(labelSet, name, count + 1)]),
                  "body", StatementFrame)

\* Parser.StatementWithLabel after Statement has returned
StatementWithLabelEnd(p) ==
    SetContext(p, [Context(p) EXCEPT
                     !.labelSet = Put(@, Frame(p).label,
                                      Get(@, Frame(p).label) - 1)])

\* Parser.LabelledStatement up to the statement it labels
LabelledStatement ==
    /\ Ready("LabelledStatement", "start")
    /\ Commit(LET q == readToken(readToken(Cur, "IDENTIFIER"), ":")
              IN  IF q.status = "failed" THEN q
                  ELSE StatementWithLabel(
                           Goto(q, [Top EXCEPT !.start = peek0.start]),
                           peek0.value))

\* Parser.LabelledStatement after the statement it labels
LabelledStatementEnd ==
    /\ Ready("LabelledStatement", "body")
    /\ Commit(Return(StatementWithLabelEnd(Cur),
                     Node("LabelledStatement", Top.start, endOffset)))

\* Parser.WhileStatement: read("while")
WhileStatement ==
    /\ Ready("WhileStatement", "start")
    /\ Commit(Goto(readToken(Cur, "while"),
                   [Top EXCEPT !.start = peek0.start, !.pc = "paren"]))

\* Parser.WhileStatement: read("("), Expression
WhileStatementTest ==
    /\ Ready("WhileStatement", "paren")
    /\ Commit(LET q == readToken(Cur, "(")
              IN  IF q.status = "failed" THEN q
                  ELSE Call(q, "close", ExpressionFrame(TRUE)))

\* Parser.WhileStatement: read(")"), StatementWithLabel
WhileStatementBody ==
    /\ Ready("WhileStatement", "close")
    /\ Commit(LET q == readToken(Cur, ")")
              IN  IF q.status = "failed" THEN q
                  ELSE StatementWithLabel(q, NULL))

\* Parser.WhileStatement after its body
WhileStatementEnd ==
    /\ Ready("WhileStatement", "body")
    /\ Commit(Return(StatementWithLabelEnd(Cur),
                     Node("WhileStatement", Top.start, endOffset)))

\* Parser.Block up to its statement list
Block ==
    /\ Ready("Block", "start")
    /\ Commit(Call(Goto(readToken(Cur, "{"),
                        [Top EXCEPT !.start = peek0.start]),
                   "close", StatementListFrame(FALSE, FALSE)))

\* Parser.Block after its statement list
BlockEnd ==
    /\ Ready("Block", "close")
    /\ Commit(LET q == readToken(Cur, "}")
              IN  IF q.status = "failed" THEN q
                  ELSE Return(q, Node("Block", Top.start, q.endOffset)))

\* Parser.SwitchStatement: read("switch")
SwitchStatement ==
    /\ Ready("SwitchStatement", "start")
    /\ Commit(Goto(readToken(Cur, "switch"),
                   [fn |-> "SwitchStatement", pc |-> "paren",
                    start |-> peek0.start, hasDefault |-> FALSE]))

\* Parser.SwitchStatement: read("("), Expression
SwitchStatementHead ==
    /\ Ready("SwitchStatement", "paren")
    /\ Commit(LET q == readToken(Cur, "(")
              IN  IF q.status = "failed" THEN q
                  ELSE Call(q, "close", ExpressionFrame(TRUE)))

\* Parser.SwitchStatement: read(")")
SwitchStatementClose ==
    /\ Ready("SwitchStatement", "close")
    /\ Commit(LET q == readToken(Cur, ")")
              IN  IF q.status = "failed" THEN q
                  ELSE Goto(q, [Top EXCEPT !.pc = "brace"]))

\* Parser.SwitchStatement: read("{"), switchDepth += 1
SwitchStatementOpen ==
    /\ Ready("SwitchStatement", "brace")
    /\ Commit(LET q == readToken(Cur, "{")
              IN  IF q.status = "failed" THEN q
                  ELSE SetContext(Goto(q, [Top EXCEPT !.pc = "loop"]),
                                  [Context(q) EXCEPT !.switchDepth = @ + 1]))

\* Parser.SwitchStatement: the loop goes on with a call of SwitchCase
SwitchStatementCase ==
    /\ Ready("SwitchStatement", "loop")
    /\ peek0.type \notin {"EOF", "}"}
    /\ Commit(Call(Cur, "case",
                   [fn |-> "SwitchCase", pc |-> "start",
                    start |-> peek0.start, test |-> NULL]))

\* Parser.SwitchStatement after SwitchCase has returned: one default at most
SwitchStatementDefault ==
    /\ Ready("SwitchStatement", "case")
    /\ Commit(IF node.expression.type # NULL
              THEN Goto(Cur, [Top EXCEPT !.pc = "loop"])
              ELSE IF Top.hasDefault THEN fail(Cur)
              ELSE Goto(Cur, [Top EXCEPT !.pc = "loop",
                                         !.hasDefault = TRUE]))

\* Parser.SwitchStatement: the loop ends; switchDepth -= 1, read("}")
SwitchStatementEnd ==
    /\ Ready("SwitchStatement", "loop")
    /\ peek0.type \in {"EOF", "}"}
    /\ Commit(LET q == readToken(
                           SetContext(Cur, [Context(Cur) EXCEPT
                                              !.switchDepth = @ - 1]),
                           "}")
              IN  IF q.status = "failed" THEN q
                  ELSE Return(q, Node("SwitchStatement", Top.start,
                                      q.endOffset)))

\* Parser.SwitchCase: "default", or "case" and an expression
SwitchCase ==
    /\ Ready("SwitchCase", "start")
    /\ Commit(IF peek0.type = "default"
              THEN Goto(readToken(Cur, ""), [Top EXCEPT !.pc = "colon"])
              ELSE LET q == readToken(Cur, "case")
                   IN  IF q.status = "failed" THEN q
                       ELSE Call(Goto(q, [Top EXCEPT !.test = "Expression"]),
                                 "colon", ExpressionFrame(TRUE)))

\* Parser.SwitchCase: read(":")
SwitchCaseColon ==
    /\ Ready("SwitchCase", "colon")
    /\ Commit(LET q == readToken(Cur, ":")
              IN  IF q.status = "failed" THEN q
                  ELSE Goto(q, [Top EXCEPT !.pc = "loop"]))

\* Parser.SwitchCase: the loop over the statements of the case
SwitchCaseStatement ==
    /\ Ready("SwitchCase", "loop")
    /\ peek0.type \notin {"EOF", "}", "case", "default"}
    /\ Commit(Call(Cur, "loop", StatementFrame))

\* Parser.SwitchCase: the loop ends; the node carries the test, if any
SwitchCaseEnd ==
    /\ Ready("SwitchCase", "loop")
    /\ peek0.type \in {"EOF", "}", "case", "default"}
    /\ Commit(Return(Cur, [type |-> "SwitchCase", start |-> Top.start,
                           end |-> endOffset,
                           expression |-> [type |-> Top.test, start |-> 0,
                                           end |-> 0]]))

\* The frames of the statements that enclose the method in progress inside
\* the current function, class body or module
Enclosing ==
    {i \in 1..Len(callStack) :
        \A j \in i..Len(callStack) : callStack[j].fn \notin ContextMethods}

\* A loop body, a switch body, or a statement labelled name encloses the
\* method in progress
InIteration ==
    \E i \in Enclosing :
        callStack[i].fn = "WhileStatement" /\ callStack[i].pc = "body"

InSwitch ==
    \E i \in Enclosing :
        callStack[i].fn = "SwitchStatement" /\ callStack[i].pc = "case"

InLabel(name) ==
    \E i \in Enclosing :
        /\ callStack[i].fn = "LabelledStatement"
        /\ callStack[i].pc = "body"
        /\ callStack[i].label = name

\* Parser.BreakOrContinueStatement: readToken()
BreakOrContinueStatement ==
    /\ Ready("BreakOrContinueStatement", "start")
    /\ Commit(Goto(readToken(Cur, ""),
                   [Top EXCEPT !.start = peek0.start, !.pc = "label",
                               !.keyword = peek0.type]))

\* Parser.maybeEnd
maybeEnd(p) ==
    ~p.peek0.newlineBefore /\ p.peek0.type \notin {"EOF", "}", ";"}

\* Parser.BreakOrContinueStatement: the label, if one follows
BreakOrContinueLabel ==
    /\ Ready("BreakOrContinueStatement", "label")
    /\ Commit(IF maybeEnd(Cur)
              THEN LET q == readToken(Cur, "IDENTIFIER")
                   IN  IF q.status = "failed" THEN q
                       ELSE Goto(q, [Top EXCEPT !.pc = "semicolon",
                                                !.label = peek0.value])
              ELSE Goto(Cur, [Top EXCEPT !.pc = "semicolon"]))

\* Parser.BreakOrContinueStatement: Semicolon, the check against labelSet and
\* switchDepth, return.  lastStmt records the statement accepted and what
\* encloses it.
BreakOrContinueCheck ==
    /\ Ready("BreakOrContinueStatement", "semicolon")
    /\ Commit(LET q == Semicolon(Cur)
                  labelSet == Context(Cur).labelSet
              IN  IF q.status = "failed" THEN q
                  ELSE IF Top.label # NULL /\ Get(labelSet, Top.label) = 0
                  THEN fail(q)
                  ELSE IF Top.label = NULL /\ Get(labelSet, "") = 0
                          /\ ~(Top.keyword = "break"
                               /\ Context(Cur).switchDepth > 0)
                  THEN fail(q)
                  ELSE [Return(q, Node(IF Top.keyword = "break"
                                       THEN "BreakStatement"
                                       ELSE "ContinueStatement",
                                       Top.start, q.endOffset))
                        EXCEPT !.lastStmt =
                            [keyword |-> Top.keyword,
                             label |-> Top.label,
                             inIteration |-> InIteration,
                             inSwitch |-> InSwitch,
                             inLabel |-> IF Top.label = NULL THEN FALSE
                                         ELSE InLabel(Top.label)]])

\* isPoisonIdent
isPoisonIdent(name) == name \in {"eval", "arguments"}

\* Validate.checkBindingIdent
checkBindingIdent(p, name) ==
    IF Context(p).strict /\ isPoisonIdent(name) THEN fail(p) ELSE p

\* Validate.checkParameters: params are the names of the parameters
checkParameters(p, params) ==
    IF ~Context(p).strict THEN p
    ELSE IF \E i \in 1..Len(params) :
               \/ isPoisonIdent(params[i])
               \/ \E j \in 1..(i - 1) : params[j] = params[i]
    THEN fail(p)
    ELSE p

\* Parser.FunctionDeclaration: read("function")
FunctionDeclaration ==
    /\ Ready("FunctionDeclaration", "start")
    /\ Commit(Goto(readToken(Cur, "function"),
                   [fn |-> "FunctionDeclaration", pc |-> "name",
                    start |-> peek0.start, ident |-> NULL]))

\* The frame of FormalParameters
FormalParametersFrame ==
    [fn |-> "FormalParameters", pc |-> "start", params |-> << >>]

\* Parser.FunctionDeclaration: the name, then FormalParameters
FunctionDeclarationName ==
    /\ Ready("FunctionDeclaration", "name")
    /\ Commit(IF peek0.type = "*" THEN outside(Cur)
              ELSE LET q == readToken(Cur, "IDENTIFIER")
                   IN  IF q.status = "failed" THEN q
                       ELSE Call(Goto(q, [Top EXCEPT !.ident = peek0.value]),
                                 "params", FormalParametersFrame))

\* The frame of FunctionBody(ident, params, isStrict); saved is what
\* pushContext found, kept for the comparison with what popContext restores
FunctionBodyFrame(ident, params, isStrict) ==
    [fn |-> "FunctionBody", pc |-> "start", start |-> 0, ident |-> ident,
     params |-> params, isStrict |-> isStrict, saved |-> NoSaved]

\* Parser.FunctionDeclaration after FormalParameters: FunctionBody
FunctionDeclarationBody ==
    /\ Ready("FunctionDeclaration", "params")
    /\ Commit(Call(Cur, "end",
                   FunctionBodyFrame(Top.ident, node.params, FALSE)))

\* Parser.FunctionDeclaration after FunctionBody
FunctionDeclarationEnd ==
    /\ Ready("FunctionDeclaration", "end")
    /\ Commit(Return(Cur, Node("FunctionDeclaration", Top.start, endOffset)))

\* Parser.FormalParameters: read("(")
FormalParameters ==
    /\ Ready("FormalParameters", "start")
    /\ Commit(LET q == readToken(Cur, "(")
              IN  IF q.status = "failed" THEN q
                  ELSE Goto(q, [Top EXCEPT !.pc = "loop"]))

\* Parser.FormalParameter: BindingPattern, here a BindingIdentifier
FormalParameter(p) ==
    IF p.peek0.type \in {"...", "{", "["} THEN outside(p)
    ELSE LET q == readToken(p, "IDENTIFIER")
         IN  IF q.status = "failed" THEN q
             ELSE Goto(checkBindingIdent(q, p.peek0.value),
                       [Frame(p) EXCEPT
                          !.pc = "init",
                          !.params = Append(@, p.peek0.value)])

\* Parser.FormalParameters: the loop; a first parameter, or "," before a
\* later one, or ")" and return
FormalParametersLoop ==
    /\ Ready("FormalParameters", "loop")
    /\ Commit(IF peek0.type \in {"EOF", ")"}
              THEN LET q == readToken(Cur, ")")
                   IN  IF q.status = "failed" THEN q
                       ELSE Return(q, [type |-> "FormalParameters",
                                       start |-> 0, end |-> 0,
                                       expression |-> NoExpr,
                                       params |-> Top.params])
              ELSE IF Top.params # << >>
              THEN LET q == readToken(Cur, ",")
                   IN  IF q.status = "failed" THEN q
                       ELSE Goto(q, [Top EXCEPT !.pc = "param"])
              ELSE FormalParameter(Cur))

\* Parser.FormalParameters: a parameter after ","
FormalParametersNext ==
    /\ Ready("FormalParameters", "param")
    /\ Commit(FormalParameter(Cur))

\* Parser.FormalParameter: "=" and the initializer, if any
FormalParameterInit ==
    /\ Ready("FormalParameters", "init")
    /\ Commit(IF peek0.type = "="
              THEN Call(readToken(Cur, "="), "loop", ExpressionFrame(FALSE))
              ELSE Goto(Cur, [Top EXCEPT !.pc = "loop"]))

\* What pushContext finds and popContext leaves: the current context, the
\* scanner's mode and the depth of the context stack
Saved(p) ==
    [context |-> Context(p), strict |-> p.sc.strict,
     depth |-> Len(p.contextStack)]

\* pushContext in FunctionBody, ClassBody or ModuleBody
PushContext(p, isFunction, isStrict) ==
    pushContext(Goto(p, [Frame(p) EXCEPT !.pc = "open", !.saved = Saved(p)]),
                isFunction, isStrict)

\* popContext in FunctionBody, ClassBody or ModuleBody; lastPop records what
\* was found at the push, what is there now, and the invalidNodes of the
\* context that is gone
PopContext(p) ==
    LET q == popContext(p)
    IN  [q EXCEPT !.lastPop =
            [fn |-> Frame(p).fn, saved |-> Frame(p).saved,
             restored |-> Saved(q),
             invalidNodes |-> Context(p).invalidNodes]]

\* Parser.FunctionBody: pushContext(true, isStrict)
FunctionBody ==
    /\ Ready("FunctionBody", "start")
    /\ Commit(PushContext(Cur, TRUE, Top.isStrict))

\* Parser.FunctionBody: read("{"), StatementList(true)
FunctionBodyOpen ==
    /\ Ready("FunctionBody", "open")
    /\ Commit(LET q == readToken(Cur, "{")
              IN  IF q.status = "failed" THEN q
                  ELSE Call(Goto(q, [Top EXCEPT !.start = peek0.start]),
                            "close", StatementListFrame(TRUE, FALSE)))

\* Parser.FunctionBody: read("}"), the checks of the name and the
\* parameters, popContext
FunctionBodyEnd ==
    /\ Ready("FunctionBody", "close")
    /\ Commit(LET q == readToken(Cur, "}")
                  q1 == IF Top.ident = NULL THEN q
                        ELSE checkBindingIdent(q, Top.ident)
                  q2 == IF q1.status = "failed" THEN q1
                        ELSE checkParameters(q1, Top.params)
              IN  IF q.status = "failed" THEN q
                  ELSE IF q2.status = "failed" THEN q2
                  ELSE Return(PopContext(q2),
                              Node("FunctionBody", Top.start, q.endOffset)))

\* Parser.ClassDeclaration: read("class")
ClassDeclaration ==
    /\ Ready("ClassDeclaration", "start")
    /\ Commit(Goto(readToken(Cur, "class"),
                   [Top EXCEPT !.start = peek0.start, !.pc = "name"]))

\* Parser.ClassDeclaration: BindingIdentifier
ClassDeclarationName ==
    /\ Ready("ClassDeclaration", "name")
    /\ Commit(LET q == readToken(Cur, "IDENTIFIER")
              IN  IF q.status = "failed" THEN q
                  ELSE Goto(checkBindingIdent(q, peek0.value),
                            [Top EXCEPT !.pc = "extends"]))

\* The frame of ClassBody and of ModuleBody
BodyFrame(fn) ==
    [fn |-> fn, pc |-> "start", start |-> 0, saved |-> NoSaved,
     nameSet |-> << >>]

\* Parser.ClassDeclaration: no "extends" clause; ClassBody
ClassDeclarationBody ==
    /\ Ready("ClassDeclaration", "extends")
    /\ Commit(IF peek0.type = "extends" THEN outside(Cur)
              ELSE Call(Cur, "end", BodyFrame("ClassBody")))

\* Parser.ClassDeclaration after ClassBody
ClassDeclarationEnd ==
    /\ Ready("ClassDeclaration", "end")
    /\ Commit(Return(Cur, Node("ClassDeclaration", Top.start, endOffset)))

\* Parser.ClassBody: pushContext(false, true)
ClassBody ==
    /\ Ready("ClassBody", "start")
    /\ Commit(PushContext(Cur, FALSE, TRUE))

\* Parser.ClassBody: read("{")
ClassBodyOpen ==
    /\ Ready("ClassBody", "open")
    /\ Commit(LET q == readToken(Cur, "{")
              IN  IF q.status = "failed" THEN q
                  ELSE Goto(q, [Top EXCEPT !.start = peek0.start,
                                           !.pc = "loop"]))

\* Parser.ClassBody: the loop goes on with a call of ClassElement
ClassBodyElement ==
    /\ Ready("ClassBody", "loop")
    /\ peek0.type \notin {"EOF", "}"}
    /\ Commit(Call(Cur, "element", StartFrame("ClassElement")))

\* Property flags
PROP_NORMAL == 1
PROP_ASSIGN == 2
PROP_GET == 4
PROP_SET == 8

\* Validate.isDuplicateName
isDuplicateName(p, type, flags) ==
    IF flags = 0 THEN FALSE
    ELSE CASE type = PROP_ASSIGN -> Context(p).strict \/ flags # PROP_ASSIGN
           [] type = PROP_GET -> flags # PROP_SET
           [] type = PROP_SET -> flags # PROP_GET
           [] OTHER -> TRUE

\* flags | flag, where flag is a single bit
SetFlag(flags, flag) ==
    IF (flags \div flag) % 2 = 1 THEN flags ELSE flags + flag

\* Parser.ClassElement after MethodDefinition, with nameSet in ClassBody's
\* frame: a duplicate name fails at once
ClassBodyName ==
    /\ Ready("ClassBody", "element")
    /\ Commit(IF isDuplicateName(Cur, PROP_NORMAL,
                                 Get(Top.nameSet, node.name))
              THEN fail(Cur)
              ELSE Goto(Cur, [Top EXCEPT
                                !.pc = "loop",
                                !.nameSet =
                                    Put(@, node.name,
                                        SetFlag(Get(@, node.name),
                                                PROP_NORMAL))]))

\* Parser.ClassBody: the loop ends; read("}"), popContext
ClassBodyEnd ==
    /\ Ready("ClassBody", "loop")
    /\ peek0.type \in {"EOF", "}"}
    /\ Commit(LET q == readToken(Cur, "}")
              IN  IF q.status = "failed" THEN q
                  ELSE Return(PopContext(q),
                              Node("ClassBody", Top.start, q.endOffset)))

\* Parser.ClassElement: no static modifier; MethodDefinition
ClassElement ==
    /\ Ready("ClassElement", "start")
    /\ Commit(IF peek0.value = "static" /\ peek1.type # "("
              THEN outside(Cur)
              ELSE Call(Goto(Cur, [Top EXCEPT !.start = peek0.start]), "end",
                        [fn |-> "MethodDefinition", pc |-> "start",
                         start |-> peek0.start, name |-> NULL]))

\* Parser.ClassElement after MethodDefinition: the node, with the name
ClassElementEnd ==
    /\ Ready("ClassElement", "end")
    /\ Commit(Return(Cur, [node EXCEPT !.type = "ClassElement",
                                       !.start = Top.start]))

\* Parser.MethodDefinition: PropertyName, here an identifier
MethodDefinition ==
    /\ Ready("MethodDefinition", "start")
    /\ Commit(IF peek0.type \in {"*", "STRING", "NUMBER"} THEN outside(Cur)
              ELSE LET q == readToken(Cur, "IDENTIFIER")
                   IN  IF q.status = "failed" THEN q
                       ELSE Goto(q, [Top EXCEPT !.pc = "modifier",
                                                !.name = peek0.value]))

\* Parser.MethodDefinition: not an accessor; FormalParameters
MethodDefinitionParameters ==
    /\ Ready("MethodDefinition", "modifier")
    /\ Commit(IF peek0.type # "(" /\ Top.name \in {"get", "set"}
              THEN outside(Cur)
              ELSE Call(Cur, "params", FormalParametersFrame))

\* Parser.MethodDefinition after FormalParameters: FunctionBody
MethodDefinitionBody ==
    /\ Ready("MethodDefinition", "params")
    /\ Commit(Call(Cur, "end", FunctionBodyFrame(NULL, node.params, FALSE)))

\* Parser.MethodDefinition after FunctionBody
MethodDefinitionEnd ==
    /\ Ready("MethodDefinition", "end")
    /\ Commit(Return(Cur, [type |-> "MethodDefinition", start |-> Top.start,
                           end |-> endOffset, expression |-> NoExpr,
                           name |-> Top.name]))

\* Parser.ObjectExpression: read("{")
ObjectExpression ==
    /\ Ready("ObjectExpression", "start")
    /\ Commit(Goto(readToken(Cur, "{"),
                   [Top EXCEPT !.start = peek0.start, !.pc = "loop"]))

\* Parser.ObjectExpression: the loop goes on; read(",") after a property
ObjectExpressionLoop ==
    /\ Ready("ObjectExpression", "loop")
    /\ peek0.type \notin {"EOF", "}"}
    /\ Commit(LET q == IF Top.list > 0 THEN readToken(Cur, ",") ELSE Cur
              IN  IF q.status = "failed" THEN q
                  ELSE Goto(q, [Top EXCEPT !.pc = "property"]))

\* Parser.PropertyDefinition: the switch on the token after the name
PropertyDefinition ==
    /\ Ready("ObjectExpression", "property")
    /\ Commit(LET type == peek1.type
              IN  IF peek0.type = "}"
                  THEN Goto(Cur, [Top EXCEPT !.pc = "loop"])
                  ELSE IF type \in {"IDENTIFIER", "STRING", "NUMBER", "(", "="}
                  THEN outside(Cur)
                  ELSE IF type = ":"
                  THEN IF peek0.type \in {"STRING", "NUMBER"}
                       THEN outside(Cur)
                       ELSE IF peek0.type # "IDENTIFIER" THEN fail(Cur)
                       ELSE Goto(readToken(Cur, "IDENTIFIER"),
                                 [Top EXCEPT !.pc = "colon",
                                             !.name = peek0.value,
                                             !.flag = PROP_ASSIGN])
                  ELSE Goto(unpeek(Cur),
                            [Top EXCEPT !.pc = "shorthand",
                                        !.flag = PROP_NORMAL]))

\* Parser.PropertyDefinition: read() of the ":", AssignmentExpression
PropertyDefinitionValue ==
    /\ Ready("ObjectExpression", "colon")
    /\ Commit(Call(readToken(Cur, ""), "check", ExpressionFrame(FALSE)))

\* Parser.PropertyDefinition: the token read again, as an Identifier
PropertyDefinitionShorthand ==
    /\ Ready("ObjectExpression", "shorthand")
    /\ Commit(LET q == readToken(Cur, "IDENTIFIER")
              IN  IF q.status = "failed" THEN q
                  ELSE Goto(q, [Top EXCEPT !.pc = "check",
                                           !.name = peek0.value]))

\* Parser.PropertyDefinition: a duplicate name is an invalid node of the
\* current context; the flag of the name is set
PropertyDefinitionCheck ==
    /\ Ready("ObjectExpression", "check")
    /\ Commit(LET flags == Get(Top.nameSet, Top.name)
                  q == IF isDuplicateName(Cur, Top.flag, flags)
                       THEN addInvalidNode(Cur,
                                "Duplicate property names in object literal")
                       ELSE Cur
              IN  Goto(q, [Top EXCEPT
                             !.pc = "loop",
                             !.list = @ + 1,
                             !.nameSet = Put(@, Top.name,
                                             SetFlag(flags, Top.flag))]))

\* Parser.ObjectExpression: the loop ends; read("}")
ObjectExpressionEnd ==
    /\ Ready("ObjectExpression", "loop")
    /\ peek0.type \in {"EOF", "}"}
    /\ Commit(LET q == readToken(Cur, "}")
              IN  IF q.status = "failed" THEN q
                  ELSE Return(q, Node("ObjectExpression", Top.start,
                                      q.endOffset)))

\* Parser.ModuleNode: readKeyword("module"), then a BindingIdentifier
ModuleNode ==
    /\ Ready("ModuleNode", "start")
    /\ Commit(LET q == readToken(Cur, "")
                  q1 == readToken(q, "IDENTIFIER")
              IN  IF q.peek0.type = "STRING" THEN outside(Cur)
                  ELSE IF q1.status = "failed" THEN q1
                  ELSE Goto(checkBindingIdent(q1, q.peek0.value),
                            [Top EXCEPT !.start = peek0.start,
                                        !.pc = "after"]))

\* Parser.ModuleNode: neither an alias nor a from declaration; ModuleBody
ModuleNodeBody ==
    /\ Ready("ModuleNode", "after")
    /\ Commit(IF peek0.type = "="
                 \/ peek0.type = "from"
                 \/ (peek0.type = "IDENTIFIER" /\ peek0.value = "from")
              THEN outside(Cur)
              ELSE Call(Cur, "end", BodyFrame("ModuleBody")))

\* Parser.ModuleNode after ModuleBody
ModuleNodeEnd ==
    /\ Ready("ModuleNode", "end")
    /\ Commit(Return(Cur, Node("ModuleDeclaration", Top.start, endOffset)))

\* Parser.ModuleBody: pushContext(false, true)
ModuleBody ==
    /\ Ready("ModuleBody", "start")
    /\ Commit(PushContext(Cur, FALSE, TRUE))

\* Parser.ModuleBody: read("{"), StatementList(true, true)
ModuleBodyOpen ==
    /\ Ready("ModuleBody", "open")
    /\ Commit(LET q == readToken(Cur, "{")
              IN  IF q.status = "failed" THEN q
                  ELSE Call(Goto(q, [Top EXCEPT !.start = peek0.start]),
                            "close", StatementListFrame(TRUE, TRUE)))

\* Parser.ModuleBody: read("}"), popContext
ModuleBodyEnd ==
    /\ Ready("ModuleBody", "close")
    /\ Commit(LET q == readToken(Cur, "}")
              IN  IF q.status = "failed" THEN q
                  ELSE Return(PopContext(q),
                              Node("ModuleBody", Top.start, q.endOffset)))

-----------------------------------------------------------------------------
(* The source texts given to the parser: sequences of at most MaxChunks     *)
(* pieces, each after a space or a line break.                              *)

Words ==
    {<<"a">>, <<";">>, <<NL>>, <<"0", "1", "0">>,
     <<DQ, "u", "s", "e", SP, "s", "t", "r", "i", "c", "t", DQ>>,
     <<"a", ":">>, <<"{">>, <<"}">>,
     <<"w", "h", "i", "l", "e", "(", "a", ")">>,
     <<"b", "r", "e", "a", "k">>,
     <<"c", "o", "n", "t", "i", "n", "u", "e">>,
     <<"b", "r", "e", "a", "k", SP, "a">>,
     <<"c", "o", "n", "t", "i", "n", "u", "e", SP, "a">>,
     <<"s", "w", "i", "t", "c", "h", "(", "a", ")", "{">>,
     <<"c", "a", "s", "e", SP, "a", ":">>,
     <<"d", "e", "f", "a", "u", "l", "t", ":">>,
     <<"f", "u", "n", "c", "t", "i", "o", "n", SP, "f", "(", ")", "{">>,
     <<"f", "u", "n", "c", "t", "i", "o", "n", SP, "f", "(", "a", ",", "b",
       "=", "a", ")", "{">>,
     <<"c", "l", "a", "s", "s", SP, "C", "{">>,
     <<"m", "(", ")", "{">>,
     <<"m", "(", "a", "=", "{", "b", ",", "b", ":", "a", "}", ")", "{", "}",
       "}">>,
     <<"m", "o", "d", "u", "l", "e", SP, "M", "{">>,
     <<"y", "i", "e", "l", "d">>, <<"y", "i", "e", "l", "d", SP, "a">>,
     <<"s", "u", "p", "e", "r", ".", "a">>}

Separators == {<<SP>>, <<NL>>}

Pieces == {sep \o w : sep \in Separators, w \in Words}

\* What the source text may go on with when the scanner is at its end
Extensions ==
    IF scanner.offset >= Len(input) /\ ~complete /\ chunks < MaxChunks
    THEN {<< >>} \cup (IF input = << >> THEN Words ELSE { }) \cup Pieces
    ELSE {<< >>}

\* Parser.peekToken or readToken with an empty slot: nextToken(context)
Scan ==
    /\ mode = "parse"
    /\ status = "parsing"
    /\ NeedToken
    /\ \E chunk \in Extensions :
         LET inp == input \o chunk
             context == IF peek0 = NoToken THEN PeekContext(Top)
                        ELSE Peek1Context(Top, peek0)
         IN  /\ input' = inp
             /\ chunks' = IF chunk = << >> THEN chunks ELSE chunks + 1
             /\ scanner' = nextToken(inp, scanner, context)
             /\ complete' = (complete \/ scanner'.type = "EOF")
             /\ peek0' = IF peek0 = NoToken THEN Token(scanner') ELSE peek0
             /\ peek1' = IF peek0 = NoToken THEN peek1 ELSE Token(scanner')
    /\ lastStmt' = NoStmt
    /\ lastPop' = NoPop
    /\ UNCHANGED <<mode, root, contextStack, endOffset, callStack, node,
                   status, rep, tr, err, rt>>

\* new Parser(input), then parseScript() or parseModule()
InitParse ==
    /\ mode = "parse"
    /\ input = << >>
    /\ scanner = NewScanner(0)
    /\ root = NoRoot
    /\ contextStack = pushContext([contextStack |-> << >>,
                                   sc |-> NewScanner(0)],
                                  FALSE, FALSE).contextStack
    /\ peek0 = NoToken
    /\ peek1 = NoToken
    /\ endOffset = 0
    /\ \E fn \in {"Script", "Module"} : callStack = <<ScriptFrame(fn)>>
    /\ node = NoNode
    /\ status = "parsing"
    /\ chunks = 0
    /\ complete = FALSE
    /\ lastStmt = NoStmt
    /\ lastPop = NoPop
    /\ rep = IdleRep
    /\ tr = IdleTr
    /\ err = NoError
    /\ rt = IdleRt

NextParse ==
    \/ Scan
    \/ Script
    \/ Module
    \/ ScriptEnd
    \/ StatementList
    \/ StatementListEnd
    \/ StatementListElement
    \/ Declaration
    \/ Statement
    \/ ExpressionStatement
    \/ ExpressionStatementEnd
    \/ EmptyStatement
    \/ YieldExpression
    \/ YieldExpressionEnd
    \/ MemberExpressionProperty
    \/ PrimaryExpression
    \/ PrimaryExpressionObject
    \/ ExpressionEnd
    \/ LabelledStatement
    \/ LabelledStatementEnd
    \/ WhileStatement
    \/ WhileStatementTest
    \/ WhileStatementBody
    \/ WhileStatementEnd
    \/ Block
    \/ BlockEnd
    \/ BreakOrContinueStatement
    \/ BreakOrContinueLabel
    \/ BreakOrContinueCheck
    \/ SwitchStatement
    \/ SwitchStatementHead
    \/ SwitchStatementClose
    \/ SwitchStatementOpen
    \/ SwitchStatementCase
    \/ SwitchStatementDefault
    \/ SwitchStatementEnd
    \/ SwitchCase
    \/ SwitchCaseColon
    \/ SwitchCaseStatement
    \/ SwitchCaseEnd
    \/ FunctionDeclaration
    \/ FunctionDeclarationName
    \/ FunctionDeclarationBody
    \/ FunctionDeclarationEnd
    \/ FormalParameters
    \/ FormalParametersLoop
    \/ FormalParametersNext
    \/ FormalParameterInit
    \/ FunctionBody
    \/ FunctionBodyOpen
    \/ FunctionBodyEnd
    \/ ClassDeclaration
    \/ ClassDeclarationName
    \/ ClassDeclarationBody
    \/ ClassDeclarationEnd
    \/ ClassBody
    \/ ClassBodyOpen
    \/ ClassBodyElement
    \/ ClassBodyName
    \/ ClassBodyEnd
    \/ ClassElement
    \/ ClassElementEnd
    \/ MethodDefinition
    \/ MethodDefinitionParameters
    \/ MethodDefinitionBody
    \/ MethodDefinitionEnd
    \/ ObjectExpression
    \/ ObjectExpressionLoop
    \/ PropertyDefinition
    \/ PropertyDefinitionValue
    \/ PropertyDefinitionShorthand
    \/ PropertyDefinitionCheck
    \/ ObjectExpressionEnd
    \/ ModuleNode
    \/ ModuleNodeBody
    \/ ModuleNodeEnd
    \/ ModuleBody
    \/ ModuleBodyOpen
    \/ ModuleBodyEnd

SpecParse == InitParse /\ [][NextParse]_vars

-----------------------------------------------------------------------------
(* Properties of the parser.                                                *)

\* The tokens in the lookahead buffer, the end of the input aside, were
\* scanned in strict mode
BufferStrict ==
    /\ peek0.type \notin {NULL, "EOF"} => peek0.strict
    /\ peek1.type \notin {NULL, "EOF"} => peek1.strict

\* A Module, a ClassBody or a module body has been entered and not left
InStrictBody ==
    \E i \in 1..Len(callStack) :
        \/ callStack[i].fn = "Module" /\ callStack[i].pc = "end"
        \/ callStack[i].fn = "ClassBody"
              /\ callStack[i].pc \in {"loop", "element"}
        \/ callStack[i].fn = "ModuleBody" /\ callStack[i].pc = "close"

\* C3: inside a Module, a ClassBody or a module body the scanner is in strict
\* mode and every token of the lookahead buffer, those fetched before the
\* body was entered included, was scanned in strict mode.
StrictInsideBodies ==
    (mode = "parse" /\ status = "parsing" /\ InStrictBody) =>
        scanner.strict /\ BufferStrict

\* A statement list has recognised the directive "use strict" and is still
\* in progress
AfterUseStrict ==
    \E i \in 1..Len(callStack) :
        /\ callStack[i].fn = "StatementList"
        /\ callStack[i].directive = "use strict"

\* C4: once a statement list has recognised the directive "use strict", the
\* current context is strict and every token after the directive, one that
\* was peeked before the directive was recognised included, is scanned in
\* strict mode.
StrictAfterDirective ==
    (mode = "parse" /\ status = "parsing" /\ AfterUseStrict) =>
        /\ contextStack[Len(contextStack)].strict
        /\ scanner.strict
        /\ BufferStrict

\* C5: an unlabelled break that the parser accepts is inside an iteration or
\* a switch statement of its function or script context, and an unlabelled
\* continue that it accepts is inside an iteration statement.
UnlabelledJumpEnclosed ==
    (lastStmt.keyword # NULL /\ lastStmt.label = NULL) =>
        /\ lastStmt.keyword = "break" =>
              lastStmt.inIteration \/ lastStmt.inSwitch
        /\ lastStmt.keyword = "continue" => lastStmt.inIteration

\* C6: a break L or continue L that the parser accepts is inside a statement
\* labelled L of the same function context that is still being parsed.
LabelledJumpEnclosed ==
    (lastStmt.keyword # NULL /\ lastStmt.label # NULL) => lastStmt.inLabel

\* C7: when a function body, class body or module body ends, the current
\* context frame, the depth of the context stack and the scanner's strict
\* flag are those found when the body was entered.
ContextRestored ==
    lastPop.fn # NULL => lastPop.restored = lastPop.saved

\* A strict class or module body nested in the body of a non-strict function
\* has just ended
NestedBodyPopped ==
    /\ lastPop.fn \in {"ClassBody", "ModuleBody"}
    /\ lastPop.saved.depth >= 2
    /\ ~lastPop.saved.strict
    /\ scanner.strict = FALSE

\* C8: no context is popped while a deferred error is pending in its
\* invalidNodes.
NoDeferredErrorDropped ==
    lastPop.fn # NULL => lastPop.invalidNodes = << >>

YieldIsIdentifier ==
    mode = "parse" =>
        /\ peek0.type = "yield" => peek0.strict
        /\ (peek0.value = "yield" /\ ~peek0.strict)
               => peek0.type = "IDENTIFIER"

\* A method definition is in progress
InMethod(stack) ==
    \E j \in 1 .. Len(stack) : stack[j].fn = "MethodDefinition"

\* C19: a member expression on `super' is accepted only inside a method
\* definition; anywhere else the parse fails.
SuperOnlyInMethods ==
    mode = "parse" =>
        \A i \in 1 .. Len(callStack) :
            (callStack[i].fn = "Expression" /\ callStack[i].isSuper)
                => InMethod(callStack)

\* C10: when the parse succeeds, the root node starts at 0 and ends at the
\* length of the input.
RootSpansInput ==
    (mode = "parse" /\ status = "done") =>
        root.start = 0 /\ root.end = Len(input)

-----------------------------------------------------------------------------
(* Replacer (src/Replacer.js).  replace(input) parses the input and visits   *)
(* the tree depth first; the text of every node is the text its replacer     *)
(* returns, or the node's source text with the texts of its children in      *)
(* place, passed through syncNewlines.  The tree is visited as the input is  *)
(* written: a node is opened at the current end of the input and closed,     *)
(* which is when visit computes its text, after its last token.  A text is   *)
(* a sequence of characters and of pieces of generated code.                 *)

MaxInputLen == 4
MaxNesting == 3

BOM == "BOM"

\* countNewlines(text): the matches of /\r\n?|\n/g
RECURSIVE countNewlines(_)
countNewlines(text) ==
    IF text = << >> THEN 0
    ELSE IF Head(text) = CR /\ Len(text) > 1 /\ text[2] = NL
    THEN 1 + countNewlines(Tail(Tail(text)))
    ELSE IF Head(text) \in {CR, NL} THEN 1 + countNewlines(Tail(text))
    ELSE countNewlines(Tail(text))

\* "\n".repeat(n)
repeat(n) == [i \in 1..n |-> NL]

\* preserveNewlines(text, height)
preserveNewlines(text, height) ==
    LET n == countNewlines(text)
    IN  IF height > 0 /\ n < height THEN text \o repeat(height - n)
        ELSE text

\* The offsets of the line breaks of the text, a CR LF pair being one
lines(inp) ==
    {i \in 0..(Len(inp) - 1) :
        \/ At(inp, i) = CR
        \/ At(inp, i) = NL /\ (i = 0 \/ At(inp, i - 1) # CR)}

\* Replacer.lineNumber(offset): the line breaks before the offset
lineNumber(inp, offset) == Cardinality({l \in lines(inp) : l < offset})

\* Replacer.syncNewlines(start, end, text)
syncNewlines(inp, start, end, text) ==
    LET height == lineNumber(inp, end - 1) - lineNumber(inp, start)
    IN  preserveNewlines(text, height)

\* sanitize(text): a first line "#!..." is emptied, then a byte order mark
\* at the start is removed
RECURSIVE dropLine(_)
dropLine(text) ==
    IF text = << >> \/ Head(text) \in {NL, CR} THEN text
    ELSE dropLine(Tail(text))

sanitize(text) ==
    LET t == IF Len(text) >= 2 /\ text[1] = "#" /\ text[2] = "!"
             THEN dropLine(text) ELSE text
    IN  IF t # << >> /\ Head(t) = BOM THEN Tail(t) ELSE t

\* What the source text starts with before the text that is parsed
Prefixes == {<< >>, <<BOM>>, <<"#", "!", "x">>}

\* A node being visited: its start, stringify(node) as far as the input
\* goes, its children visited so far, and what the input ends with
RepFrame(type, start) ==
    [type |-> type, start |-> start, text |-> << >>, kids |-> << >>,
     last |-> "none"]

RepTop == rep.stack[Len(rep.stack)]

RepPut(f) == [rep.stack EXCEPT ![Len(rep.stack)] = f]

Visiting == mode = "replace" /\ rep.phase = "visit"

\* The next character of the input
RepChar(c, last) ==
    /\ Visiting
    /\ Len(input) < MaxInputLen
    /\ input' = Append(input, c)
    /\ rep' = [rep EXCEPT
                 !.stack = RepPut([RepTop EXCEPT !.text = Append(@, c),
                                                 !.last = last])]
    /\ UNCHANGED <<mode, scanner, root, parseVars, tr, err, rt>>

\* White space or a line break: no node starts with it, and text after a
\* "#!" line starts with a line break
RepGap ==
    \E c \in {SP, NL, CR} :
        /\ RepTop.type = "Root" \/ RepTop.last # "none"
        /\ (Len(rep.prefix) = 3 /\ input = << >>) => c # SP
        /\ RepChar(c, "gap")

\* A character of a token of the node
RepToken ==
    /\ RepTop.type # "Root"
    /\ ~(Len(rep.prefix) = 3 /\ input = << >>)
    /\ RepChar("x", "token")

\* visit(child) begins: the child starts where the input ends
RepOpen ==
    /\ Visiting
    /\ Len(input) < MaxInputLen
    /\ Len(rep.stack) <= MaxNesting
    /\ ~(Len(rep.prefix) = 3 /\ input = << >>)
    /\ RepTop.type = "Root" => RepTop.kids = << >>
    /\ rep' = [rep EXCEPT
                 !.stack = Append(@, RepFrame(IF RepTop.type = "Root"
                                              THEN "Script" ELSE "Node",
                                              Len(input)))]
    /\ UNCHANGED <<mode, input, scanner, root, parseVars, tr, err, rt>>

\* Replacer.joinList(list): the texts, with the input between the nodes
RECURSIVE joinList(_, _, _)
joinList(inp, list, offset) ==
    IF list = << >> THEN << >>
    ELSE LET child == Head(list)
         IN  (IF offset >= 0 /\ offset < child.start
              THEN SubSeq(inp, offset + 1, child.start) ELSE << >>)
             \o child.text
             \o joinList(inp, Tail(list), child.end)

\* The replacers: what this[node.type](node) returns for the node in frame
\* f, and stringify(node) where there is no replacer or it returns nothing.
\* The body of the arrow function is an expression.
Replacers == {"none", "Module", "ArrowFunction", "ThisExpression",
              "ImportDeclaration"}

Replace(inp, f, type) ==
    CASE type = "Module" -> <<"var __this = this;", " ">> \o f.text
      [] type = "ArrowFunction" ->
            LET n == Len(f.kids)
            IN  <<"(function(">> \o joinList(inp, SubSeq(f.kids, 1, n - 1), -1)
                \o <<") ", "{ ", "return ">> \o f.kids[n].text
                \o <<"; }", ")">>
      [] type = "ThisExpression" -> <<"__this">>
      [] type = "ImportDeclaration" -> << >>
      [] OTHER -> f.text

\* visit(node) ends: the replacer of the node, stringify(node) where it has
\* none, and syncNewlines; the text goes into that of the parent
RepClose ==
    /\ Visiting
    /\ Len(rep.stack) >= 2
    /\ RepTop.last \in {"token", "child"}
    /\ \E type \in Replacers :
         /\ type = "Module" => RepTop.type = "Script"
         /\ RepTop.type = "Script" => type \in {"none", "Module"}
         /\ type = "ArrowFunction" => RepTop.kids # << >>
         /\ type = "ThisExpression" => RepTop.kids = << >>
         /\ LET f == RepTop
                text == Replace(input, f, type)
                synced == syncNewlines(input, f.start, Len(input), text)
                rest == SubSeq(rep.stack, 1, Len(rep.stack) - 1)
                parent == rest[Len(rest)]
                child == [start |-> f.start, end |-> Len(input),
                          text |-> synced]
            IN  rep' = [rep EXCEPT
                          !.stack = [rest EXCEPT ![Len(rest)] =
                                       [parent EXCEPT
                                          !.text = @ \o synced,
                                          !.kids = Append(@, child),
                                          !.last = "child"]]]
    /\ UNCHANGED <<mode, input, scanner, root, parseVars, tr, err, rt>>

\* The end of replace: the text of the root, and a line for every export
Output(text, exports) ==
    text \o (IF exports THEN <<NL, "exports.x = x;">> ELSE << >>)

\* The text that translate is given
Source == rep.prefix \o input

\* visit(new RootNode(root, input.length)) ends, and replace with it
\* (translate with no options returns its output)
RepFinish ==
    /\ Visiting
    /\ Len(rep.stack) = 1
    /\ RepTop.kids # << >>
    /\ \E exports \in BOOLEAN :
         LET text == syncNewlines(input, 0, Len(input), RepTop.text)
         IN  rep' = [rep EXCEPT !.phase = "done",
                                !.sanitized = sanitize(Source),
                                !.output = Output(text, exports)]
    /\ UNCHANGED <<mode, input, scanner, root, parseVars, tr, err, rt>>

\* The same for an input with no token: the script starts at the end of the
\* input, where the token EOF is, and ends at 0
RepFinishEmpty ==
    /\ Visiting
    /\ Len(rep.stack) = 1
    /\ RepTop.kids = << >>
    /\ LET script == [start |-> Len(input), end |-> 0,
                      text |-> syncNewlines(input, Len(input), 0, << >>)]
           stringify == input \o script.text
                          \o SubSeq(input, script.end + 1, Len(input))
           text == syncNewlines(input, 0, Len(input), stringify)
       IN  rep' = [rep EXCEPT !.phase = "done",
                              !.sanitized = sanitize(Source),
                              !.output = Output(text, FALSE)]
    /\ UNCHANGED <<mode, input, scanner, root, parseVars, tr, err, rt>>

InitReplace ==
    /\ mode = "replace"
    /\ input = << >>
    /\ scanner = IdleScanner
    /\ root = NoRoot
    /\ ParserIdle
    /\ \E prefix \in Prefixes :
         rep = [phase |-> "visit", prefix |-> prefix,
                stack |-> <<RepFrame("Root", 0)>>,
                sanitized |-> << >>, output |-> << >>]
    /\ tr = IdleTr
    /\ err = NoError
    /\ rt = IdleRt

NextReplace ==
    \/ RepGap
    \/ RepToken
    \/ RepOpen
    \/ RepClose
    \/ RepFinish
    \/ RepFinishEmpty

SpecReplace == InitReplace /\ [][NextReplace]_vars

\* C2: the output of translate(x, {}) has at least as many newlines as x.
NewlinesPreserved ==
    (mode = "replace" /\ rep.phase = "done") =>
        countNewlines(rep.output) >= countNewlines(Source)

-----------------------------------------------------------------------------
(* Translator (src/Translator.js).  A text is a sequence of characters and   *)
(* of pieces of code; the signature and the parts of the module wrapper are  *)
(* pieces.                                                                   *)

MaxTextLen == 3
MaxCalls == 2

SIGNATURE == "/*=esdown=*/"

WRAP_CALLEE == "(function(fn, name) { ... })"

MODULE_IMPORT_RUNTIME == "function __load(p, l) { ... } "

MODULE_IMPORT == "function __import(e) { ... } "

\* Pieces of source code: a statement that is translated as it is, one that
\* is rewritten, and an import declaration
ES5 == "a;"
ARROW == "x=>x;"
IMPORT == "import {a} from 'm';"

\* What the input of translate is made of
TextAlphabet == {"#", "!", BOM, NL, ES5, ARROW, IMPORT, SIGNATURE}

\* "(function(){" and "})"
FunctionOpen == <<"(", "f", "u", "n", "c", "t", "i", "o", "n", "(", ")", "{">>
FunctionClose == <<"}", ")">>

\* replaceText(input, options): the text does not parse with "#" or "!" in
\* it; an arrow function is rewritten, an import declaration is taken out
\* and listed in imports, comments and other code stay as they are
RECURSIVE replaceOutput(_)
replaceOutput(text) ==
    IF text = << >> THEN << >>
    ELSE (CASE Head(text) = ARROW -> <<"(function(x) { return x; });">>
            [] Head(text) = IMPORT -> << >>
            [] OTHER -> <<Head(text)>>)
         \o replaceOutput(Tail(text))

replaceText(text, options) ==
    [throws |-> \E i \in 1..Len(text) : text[i] \in {"#", "!"},
     output |-> replaceOutput(text),
     imports |-> IF \E i \in 1..Len(text) : text[i] = IMPORT
                 THEN <<[url |-> "m", identifier |-> "_M0"]>>
                 ELSE << >>]

\* JSON.stringify(s) of a string with nothing to escape
JSONstringify(str) == "\"" \o str \o "\""

\* wrapModule(text, imports, options); no import has a legacy scheme
wrapModule(text, imports, options) ==
    LET requires == [i \in 1..Len(imports) |->
                        IF options.runtimeImports
                        THEN imports[i].identifier \o " = __load("
                             \o JSONstringify(imports[i].url) \o ", 0)"
                        ELSE imports[i].identifier \o " = __import(require("
                             \o JSONstringify(imports[i].url) \o "))"]
        header == <<"'use strict'; ">>
                  \o <<IF options.runtimeImports THEN MODULE_IMPORT_RUNTIME
                       ELSE MODULE_IMPORT>>
                  \o (IF Len(requires) > 0
                      THEN <<"var ">> \o requires \o <<"; ">>
                      ELSE << >>)
    IN  IF options.global = ""
        THEN <<SIGNATURE>> \o header \o text
        ELSE <<SIGNATURE, WRAP_CALLEE, "(",
               "function(require, exports, module) { ">>
             \o header \o text
             \o <<NL, NL, "}, ", JSONstringify(options.global), ");">>

\* translate(input, options), options.runtime not set; throws where
\* replaceText does and where a text that is no module is to be wrapped
translate(text, options) ==
    LET sanitized == sanitize(text)
        result == replaceText(IF options.functionContext
                              THEN FunctionOpen \o sanitized \o FunctionClose
                              ELSE sanitized,
                              options)
        output == IF options.functionContext
                  THEN SubSeq(result.output, 13, Len(result.output) - 2)
                  ELSE result.output
    IN  IF result.throws \/ (options.wrap /\ ~options.module)
        THEN [throws |-> TRUE, output |-> << >>]
        ELSE [throws |-> FALSE,
              output |-> IF options.wrap
                         THEN wrapModule(output, result.imports, options)
                         ELSE output]

\* text.indexOf(SIGNATURE) > 0
signatureInside(text) == \E i \in 2..Len(text) : text[i] = SIGNATURE

\* isWrapped(text): text.indexOf(SIGNATURE) === 0
isWrapped(text) == text # << >> /\ Head(text) = SIGNATURE

Options ==
    [wrap : BOOLEAN, module : BOOLEAN, functionContext : BOOLEAN,
     runtimeImports : BOOLEAN, global : {"", "G"}]

\* A call of translate on the text in hand.  With tr.guarded the caller is
\* one that tests isWrapped first, as the servers of the build do.
TranslateCall ==
    /\ mode = "translate"
    /\ tr.phase = "ready"
    /\ tr.calls < MaxCalls
    /\ LET skip == tr.guarded /\ isWrapped(tr.text)
           result == translate(tr.text, tr.options)
       IN  tr' = IF skip THEN [tr EXCEPT !.calls = @ + 1,
                                         !.first = IF tr.calls = 0
                                                   THEN tr.text ELSE @]
                 ELSE IF result.throws THEN [tr EXCEPT !.phase = "failed"]
                 ELSE [tr EXCEPT !.calls = @ + 1,
                                 !.translated = @ + 1,
                                 !.text = result.output,
                                 !.first = IF tr.calls = 0
                                           THEN result.output ELSE @]
    /\ UNCHANGED <<mode, input, scanner, root, parseVars, rep, err, rt>>

InitTranslate ==
    /\ mode = "translate"
    /\ input \in Texts(TextAlphabet, MaxTextLen)
    /\ scanner = IdleScanner
    /\ root = NoRoot
    /\ ParserIdle
    /\ rep = IdleRep
    /\ err = NoError
    /\ rt = IdleRt
    /\ \E options \in Options, guarded \in BOOLEAN :
         tr = [phase |-> "ready", options |-> options, guarded |-> guarded,
               text |-> input, calls |-> 0, translated |-> 0,
               first |-> << >>]

NextTranslate == TranslateCall

SpecTranslate == InitTranslate /\ [][NextTranslate]_vars

\* translate has been applied to x and then to its own output, with
\* options.wrap set
TranslatedTwice ==
    /\ mode = "translate"
    /\ ~tr.guarded
    /\ tr.options.wrap
    /\ tr.calls = 2

\* C1 as stated: translate(translate(x, opts), opts) = translate(x, opts)
\* when opts.wrap is set.
TranslateIdempotent == TranslatedTwice => tr.text = tr.first

\* C1: with opts.wrap set, the output of translate begins with the
\* signature; translate does not look for it, and applied to its own output
\* it wraps the text once more; a caller that translates only a text for
\* which isWrapped is false leaves the output of translate as it is.
WrappedOnceByCaller ==
    (mode = "translate" /\ tr.options.wrap /\ tr.translated >= 1) =>
        /\ isWrapped(tr.first)
        /\ isWrapped(tr.text)
        /\ (tr.guarded /\ tr.calls = 2) => tr.text = tr.first
        /\ TranslatedTwice =>
              /\ Len(tr.text) > Len(tr.first)
              /\ tr.translated = 2

\* A caller that tests isWrapped has been given the output of translate a
\* second time and has left it alone
GuardedSecondCall ==
    /\ mode = "translate"
    /\ tr.guarded
    /\ tr.options.wrap
    /\ tr.calls = 2
    /\ tr.translated = 1
    /\ input # << >>
    /\ ~isWrapped(input)
    /\ tr.text = tr.first

-----------------------------------------------------------------------------
(* The replacer's module bookkeeping: the handlers of import, export and    *)
(* module declarations, and the header and trailer written by replace().    *)
(* The repository holds two copies of the Replacer, build/es6now.js and     *)
(* src/Replacer.js; rep.build says which of them runs.  The nodes handled   *)
(* are those the parser methods ImportDeclaration, ExportDeclaration and    *)
(* ModuleDeclaration build.  Output text is a sequence of pieces.           *)

MaxDeclarations == 3   \* most declarations handled in one replace() call
MaxModules == 2        \* most module declarations open at once, plus one

RESERVED_WORD ==
    {"break", "case", "catch", "class", "const", "continue", "debugger",
     "default", "delete", "do", "else", "enum", "export", "extends", "false",
     "finally", "for", "function", "if", "import", "in", "instanceof", "new",
     "null", "return", "super", "switch", "this", "throw", "true", "try",
     "typeof", "var", "void", "while", "with", "implements", "private",
     "public", "interface", "package", "let", "protected", "static", "yield"}

\* url.trim()
RECURSIVE trimStart(_)
trimStart(url) ==
    IF url # << >> /\ Head(url) = SP THEN trimStart(Tail(url)) ELSE url

RECURSIVE trimEnd(_)
trimEnd(url) ==
    IF url # << >> /\ url[Len(url)] = SP
    THEN trimEnd(SubSeq(url, 1, Len(url) - 1))
    ELSE url

trim(url) == trimEnd(trimStart(url))

\* HAS_SCHEMA = /^[a-z]+:/i
HAS_SCHEMA(url) ==
    \E k \in 1 .. Len(url) - 1 :
        /\ \A j \in 1 .. k : url[j] \in Letters
        /\ url[k + 1] = ":"

\* NODE_SCHEMA = /^(?:npm|node):/i : the length of the match, 0 for none
NODE_SCHEMA(url) ==
    IF Len(url) >= 4 /\ SubSeq(url, 1, 4) = <<"n", "p", "m", ":">> THEN 4
    ELSE IF Len(url) >= 5 /\ SubSeq(url, 1, 5) = <<"n", "o", "d", "e", ":">>
    THEN 5
    ELSE 0

\* The url that moduleIdent looks up: mapURI is the identity
normalize(url) ==
    LET u == trim(url)
    IN  IF NODE_SCHEMA(u) > 0 THEN SubSeq(u, NODE_SCHEMA(u) + 1, Len(u))
        ELSE IF ~HAS_SCHEMA(u) /\ At(u, 0) # "/" THEN <<".", "/">> \o u
        ELSE u

\* obj[key] of an object kept as the sequence of its own properties, in
\* the order of Object.keys; UNDEF for a missing key
Lookup(obj, key) ==
    IF \E i \in 1 .. Len(obj) : obj[i].key = key
    THEN obj[CHOOSE i \in 1 .. Len(obj) : obj[i].key = key].value
    ELSE UNDEF

\* obj[key] = value
Assign(obj, key, value) ==
    IF \E i \in 1 .. Len(obj) : obj[i].key = key
    THEN [i \in 1 .. Len(obj) |->
             IF obj[i].key = key THEN [key |-> key, value |-> value]
             ELSE obj[i]]
    ELSE Append(obj, [key |-> key, value |-> value])

\* (variant: a fresh identifier for every call)
moduleIdentFresh(r, url) ==
    [rep |-> [r EXCEPT !.imports = Assign(@, Join(normalize(url)),
                                          "_M" \o ToString(r.uid)),
                       !.uid = @ + 1,
                       !.dependencies = Append(@, Join(normalize(url))),
                       !.used = Append(@, [url |-> url,
                                           ident |-> "_M" \o ToString(r.uid)])],
     ident |-> "_M" \o ToString(r.uid)]

\* Replacer.moduleIdent(url): the replacer after the call and the identifier
\* returned; used is the history of the calls (url, identifier)
moduleIdent(r, url) ==
    LET u == Join(normalize(url))
    IN  IF Lookup(r.imports, u) = UNDEF
        THEN [rep |-> [r EXCEPT !.imports =
                                    Assign(@, u, "_M" \o ToString(r.uid)),
                                !.uid = @ + 1,
                                !.dependencies = Append(@, u),
                                !.used = Append(@,
                                    [url |-> url,
                                     ident |-> "_M" \o ToString(r.uid)])],
              ident |-> "_M" \o ToString(r.uid)]
        ELSE [rep |-> [r EXCEPT !.used = Append(@,
                                    [url |-> url,
                                     ident |-> Lookup(r.imports, u)])],
              ident |-> Lookup(r.imports, u)]

\* Replacer.modulePath(node)
modulePath(r, from) ==
    IF from.type = "String" THEN moduleIdent(r, from.value)
    ELSE [rep |-> r, ident |-> from.text]

\* The module specifiers of the declarations handled
URLs ==
    {<<"a">>, <<" ", "a">>, <<".", "/", "a">>, <<"n", "p", "m", ":", "a">>,
     <<"b">>}

NoFrom == [type |-> NULL, value |-> << >>, text |-> ""]

\* Parser.String and Parser.ModulePath after `from'
FromNodes ==
    {[type |-> "String", value |-> url, text |-> ""] : url \in URLs}
    \cup {[type |-> "ModulePath", value |-> << >>, text |-> "M"]}

\* Parser.ImportSpecifier: remote [as local]
ImportSpecifiers ==
    {[remote |-> "a", local |-> NULL], [remote |-> "a", local |-> "b"]}

\* Parser.ImportDeclaration: import { specifiers } from ...
ImportNodes ==
    {[type |-> "ImportDeclaration", specifiers |-> list, from |-> from] :
        list \in {<< >>} \cup {<<x>> : x \in ImportSpecifiers},
        from \in FromNodes}

\* Parser.ExportSpecifier: local [as remote]; remote is an IdentifierName,
\* so it may be a reserved word
ExportSpecifiers ==
    {[local |-> "a", remote |-> remote] : remote \in {NULL, "b", "default"}}

\* Parser.ExportSpecifierSet: `*' with an optional from, or a braced list;
\* hasList is list !== null
ExportSpecifierSet(star, from, list) ==
    IF star
    THEN [type |-> "ExportSpecifierSet", hasList |-> FALSE,
          specifiers |-> << >>, from |-> from, ident |-> "", text |-> << >>]
    ELSE [type |-> "ExportSpecifierSet", hasList |-> TRUE,
          specifiers |-> list, from |-> NoFrom, ident |-> "", text |-> << >>]

\* The declarations of Parser.ExportDeclaration that are not modules: their
\* text is the declaration's own output
ExportBindings ==
    {ExportSpecifierSet(TRUE, from, << >>) : from \in FromNodes \cup {NoFrom}}
    \cup {ExportSpecifierSet(FALSE, NoFrom, list) :
             list \in {<< >>} \cup {<<x>> : x \in ExportSpecifiers}
                      \cup {<<x, y>> : x, y \in ExportSpecifiers}}
    \cup {[type |-> t, hasList |-> FALSE, specifiers |-> << >>,
           from |-> NoFrom, ident |-> "a", text |-> <<t, " a">>] :
             t \in {"VariableDeclaration", "FunctionDeclaration",
                    "ClassDeclaration"}}

NoBinding ==
    [type |-> NULL, hasList |-> FALSE, specifiers |-> << >>,
     from |-> NoFrom, ident |-> "", text |-> << >>]

\* this.exports
Exports(r) == r.exportStack[Len(r.exportStack)]

SetExports(r, exports) ==
    [r EXCEPT !.exportStack[Len(r.exportStack)] = exports]

\* The text a handler returns becomes part of the text of its parent
Emit(r, text) == [r EXCEPT !.texts[Len(r.texts)] = @ \o text]

Replacing ==
    /\ mode = "module"
    /\ rep.phase = "visit"

\* Replacer.ImportDeclaration(node)
RepImportDeclaration ==
    /\ Replacing
    /\ rep.pending = NoBinding
    /\ rep.count < MaxDeclarations
    /\ \E n \in ImportNodes :
         LET m == modulePath(rep, n.from)
             list == [i \in 1 .. Len(n.specifiers) |->
                         (IF n.specifiers[i].local = NULL
                          THEN n.specifiers[i].remote
                          ELSE n.specifiers[i].local)
                         \o " = " \o m.ident \o "."
                         \o n.specifiers[i].remote]
             text == IF list = << >> THEN << >>
                     ELSE <<"var ">> \o list \o <<";">>
         IN  rep' = [Emit(m.rep, text) EXCEPT !.count = @ + 1]
    /\ UNCHANGED <<mode, input, scanner, root, parseVars, tr, err, rt>>

\* exports[remote] = ... for every specifier of the list
RECURSIVE exportSpecifiers(_, _, _, _)
exportSpecifiers(exports, specifiers, hasFrom, fromPath) ==
    IF specifiers = << >> THEN exports
    ELSE LET spec == Head(specifiers)
             remote == IF spec.remote # NULL THEN spec.remote ELSE spec.local
         IN  exportSpecifiers(
                 Assign(exports, remote,
                        IF hasFrom THEN fromPath \o "." \o spec.local
                        ELSE spec.local),
                 Tail(specifiers), hasFrom, fromPath)

\* Replacer.ExportDeclaration(node) for the binding of the node;
\* threw: `export *;` is not implemented (build/es6now.js)
ExportDeclaration(r, binding) ==
    IF binding.type # "ExportSpecifierSet"
    THEN Emit(SetExports(r, Assign(Exports(r), binding.ident, binding.ident)),
              IF binding.type = "VariableDeclaration"
              THEN binding.text \o <<";">> ELSE binding.text)
    ELSE LET hasFrom == binding.from # NoFrom
             m == IF hasFrom THEN modulePath(r, binding.from)
                  ELSE [rep |-> r, ident |-> ""]
             fromPath == m.ident
         IN  IF ~binding.hasList
             THEN IF r.build /\ ~hasFrom
                  THEN [m.rep EXCEPT !.phase = "threw"]
                  ELSE Emit(m.rep, <<"Object.keys(", fromPath,
                                     ").forEach(function(k) { exports[k] = ",
                                     fromPath, "[k]; });">>)
             ELSE SetExports(m.rep,
                             exportSpecifiers(Exports(m.rep),
                                              binding.specifiers, hasFrom,
                                              fromPath))

\* The handler called for an export declaration; the declaration of
\* `export module M { }' has been handled just before (rep.pending)
RepExportDeclaration ==
    /\ Replacing
    /\ \E binding \in ExportBindings \cup {rep.pending} :
         /\ binding # NoBinding
         /\ rep.pending # NoBinding => binding = rep.pending
         /\ rep.pending = NoBinding => rep.count < MaxDeclarations
         /\ rep' = [ExportDeclaration(rep, binding) EXCEPT
                        !.pending = NoBinding,
                        !.count = IF rep.pending = NoBinding THEN @ + 1
                                  ELSE @]
    /\ UNCHANGED <<mode, input, scanner, root, parseVars, tr, err, rt>>

\* Replacer.ModuleDeclarationBegin(node), for `module M { }' and for
\* `export module M { }'
RepModuleDeclarationBegin ==
    /\ Replacing
    /\ rep.pending = NoBinding
    /\ rep.count < MaxDeclarations
    /\ Len(rep.exportStack) < MaxModules
    /\ \E exported \in BOOLEAN :
         rep' = [rep EXCEPT !.exportStack = Append(@, << >>),
                            !.texts = Append(@, << >>),
                            !.exported = Append(@, exported),
                            !.count = @ + 1]
    /\ UNCHANGED <<mode, input, scanner, root, parseVars, tr, err, rt>>

\* The assignments to exports at the end of a module declaration
exportAssignments(exports) ==
    [i \in 1 .. Len(exports) |->
        <<"exports", ".", exports[i].key, " = ", exports[i].value, "; ">>]

RECURSIVE Flatten(_)
Flatten(seqs) ==
    IF seqs = << >> THEN << >> ELSE Head(seqs) \o Flatten(Tail(seqs))

\* Replacer.ModuleDeclaration(node), after the declarations of its body
RepModuleDeclaration ==
    /\ Replacing
    /\ rep.pending = NoBinding
    /\ Len(rep.exportStack) > 1
    /\ LET n == Len(rep.exportStack)
           out == <<"var ", "M", " = (function(exports) {">>
                  \o rep.texts[n]
                  \o Flatten(exportAssignments(Exports(rep)))
                  \o <<"return exports; }).call(this, {});">>
           popped == [rep EXCEPT
                         !.exportStack = SubSeq(@, 1, n - 1),
                         !.texts = SubSeq(@, 1, n - 1),
                         !.exported = SubSeq(@, 1, Len(@) - 1)]
       IN  rep' = IF rep.exported[Len(rep.exported)]
                  THEN [popped EXCEPT !.pending =
                           [NoBinding EXCEPT !.type = "ModuleDeclaration",
                                             !.ident = "M", !.text = out]]
                  ELSE Emit(popped, out)
    /\ UNCHANGED <<mode, input, scanner, root, parseVars, tr, err, rt>>

\* The header of replace(): one identifier for every dependency
header(r) ==
    LET head == Flatten([i \in 1 .. Len(r.dependencies) |->
                    <<IF i = 1 THEN "var " ELSE ", ",
                      Lookup(r.imports, r.dependencies[i]), " = ",
                      "__load(" \o JSONstringify(r.dependencies[i]) \o ")">>])
    IN  IF head = << >> THEN << >> ELSE head \o <<"; ">>

\* The trailer of replace(): the exports of the outermost module
trailer(r) ==
    Flatten([i \in 1 .. Len(Exports(r)) |->
        LET k == Exports(r)[i].key
        IN  (IF ~r.build /\ k \in RESERVED_WORD
             THEN <<"\nexports", "[", JSONstringify(k), "]">>
             ELSE <<"\nexports", ".", k>>)
            \o <<" = ", Exports(r)[i].value, ";">>])

\* Replacer.replace(input) after the visit of the tree
RepReplaceEnd ==
    /\ Replacing
    /\ rep.pending = NoBinding
    /\ Len(rep.exportStack) = 1
    /\ rep' = [rep EXCEPT !.phase = "done",
                          !.head = header(rep),
                          !.output = header(rep) \o rep.texts[1]
                                     \o trailer(rep)]
    /\ UNCHANGED <<mode, input, scanner, root, parseVars, tr, err, rt>>

\* new Replacer, replace(input) up to the visit of the tree
InitModule ==
    /\ mode = "module"
    /\ input = << >>
    /\ scanner = IdleScanner
    /\ root = NoRoot
    /\ ParserIdle
    /\ \E build \in BOOLEAN :
         rep = [phase |-> "visit", build |-> build, exportStack |-> <<<< >>>>,
                imports |-> << >>, dependencies |-> << >>, uid |-> 0,
                used |-> << >>,
                texts |-> <<<< >>>>, exported |-> << >>,
                pending |-> NoBinding, count |-> 0, head |-> << >>,
                output |-> << >>]
    /\ tr = IdleTr
    /\ err = NoError
    /\ rt = IdleRt

NextModule ==
    \/ RepImportDeclaration
    \/ RepExportDeclaration
    \/ RepModuleDeclarationBegin
    \/ RepModuleDeclaration
    \/ RepReplaceEnd

SpecModule == InitModule /\ [][NextModule]_vars

\* C13: the replacer handles every import, export and module declaration the
\* parser builds without raising an error of its own.
ReplacerNeverRaises ==
    mode = "module" => rep.phase # "threw"

\* An export assignment written with a dot and the name at place i of text
DotExport(text, i) ==
    /\ i + 2 <= Len(text)
    /\ text[i] \in {"exports", "\nexports"}
    /\ text[i + 1] = "."

\* C14: in the output of replace(), the trailer and the nested module
\* declarations included, no export whose name is a reserved word is written
\* as exports.X (it is written exports["X"]).
ReservedExportsBracketed ==
    (mode = "module" /\ rep.phase = "done") =>
        \A i \in 1 .. Len(rep.output) :
            DotExport(rep.output, i) => rep.output[i + 2] \notin RESERVED_WORD

\* C14 for the trailer of src/Replacer.js alone
ReservedExportsBracketedInTrailer ==
    (mode = "module" /\ rep.phase = "done" /\ ~rep.build) =>
        \A i \in 1 .. Len(rep.output) :
            (DotExport(rep.output, i) /\ rep.output[i] = "\nexports")
                => rep.output[i + 2] \notin RESERVED_WORD

\* The normalized urls of the calls of moduleIdent, each once, in the order
\* of their first use
RECURSIVE FirstUses(_, _)
FirstUses(used, seen) ==
    IF used = << >> THEN seen
    ELSE LET u == Join(normalize(Head(used).url))
         IN  FirstUses(Tail(used),
                       IF \E i \in 1 .. Len(seen) : seen[i] = u THEN seen
                       ELSE Append(seen, u))

\* The identifiers declared by the header: four pieces for each
HeaderIdents(head) == [i \in 1 .. Len(head) \div 4 |-> head[4 * i - 2]]

HeaderLoads(head) == [i \in 1 .. Len(head) \div 4 |-> head[4 * i]]

\* C16: after any sequence of import and export-from declarations in one
\* replace() call, the header declares one _M<n> identifier for every
\* distinct normalized url, in the order of first use; two uses get the same
\* identifier exactly when their normalized urls are equal.
OneIdentPerURL ==
    (mode = "module" /\ rep.phase = "done") =>
        LET urls == FirstUses(rep.used, << >>)
            idents == HeaderIdents(rep.head)
        IN  /\ Len(idents) = Len(urls)
            /\ \A i, j \in 1 .. Len(idents) :
                   idents[i] = idents[j] => i = j
            /\ \A i \in 1 .. Len(urls) :
                   HeaderLoads(rep.head)[i]
                       = "__load(" \o JSONstringify(urls[i]) \o ")"
            /\ \A i, j \in 1 .. Len(rep.used) :
                   (rep.used[i].ident = rep.used[j].ident)
                       <=> (normalize(rep.used[i].url)
                                = normalize(rep.used[j].url))
            /\ \A i \in 1 .. Len(rep.used) :
                   \E j \in 1 .. Len(urls) :
                       /\ urls[j] = Join(normalize(rep.used[i].url))
                       /\ idents[j] = rep.used[i].ident

\* two spellings of one url and a second url, imported in one call
SharedIdentUsed ==
    /\ mode = "module" /\ rep.phase = "done"
    /\ Len(rep.used) = 3
    /\ Len(rep.dependencies) = 2
    /\ rep.used[1].url # rep.used[3].url
    /\ rep.used[1].ident = rep.used[3].ident

-----------------------------------------------------------------------------
(* The replacer's bookkeeping for functions (src/Replacer.js): temporaries, *)
(* placeholders of computed property names and the alias of `this'.  The    *)
(* tree is visited depth first; rep.stack holds the nodes whose children    *)
(* are being visited, the Module first, and closed is the function whose    *)
(* replacer ran last.                                                       *)

MaxOpenNodes == 4     \* most nodes open at once, the Module included
MaxRewrites == 3      \* most rewrites and declarations in one replace()

FunctionTypes ==
    {"ArrowFunction", "FunctionDeclaration", "FunctionExpression",
     "MethodDefinition", "Script", "Module"}

\* The user's identifiers; __$0 is an identifier like any other
UserNames == {"a", "__$0"}

\* A node being visited.  thisAlias: a `__this' was written for which this
\* node is the nearest function or program that is not an arrow function;
\* idents: the names the source declares in it; placeholders: the computed
\* names written inside it
FnFrame(type) ==
    [type |-> type, createThisBinding |-> FALSE, tempVars |-> << >>,
     computedNames |-> 0, idents |-> {}, placeholders |-> {},
     thisAlias |-> FALSE]

NoFunction == FnFrame(NULL) @@ [insert |-> << >>]

\* Replacer.parentFunction: the innermost function among the first n nodes
\* of the stack, 0 for none
parentFunction(stack, n) ==
    IF \E j \in 1 .. n : stack[j].type \in FunctionTypes
    THEN CHOOSE j \in 1 .. n :
             /\ stack[j].type \in FunctionTypes
             /\ \A k \in j + 1 .. n : stack[k].type \notin FunctionTypes
    ELSE 0

\* The innermost function or program that is not an arrow function
NearestNonArrow(stack) ==
    CHOOSE j \in 1 .. Len(stack) :
        /\ stack[j].type \in FunctionTypes \ {"ArrowFunction"}
        /\ \A k \in j + 1 .. Len(stack) :
               stack[k].type \notin FunctionTypes \ {"ArrowFunction"}

\* (variant: no ancestor is flagged)
flagNone(stack, fn) == stack

\* Replacer.ThisExpression: while (fn = this.parentFunction(fn)) ...
RECURSIVE flagAncestors(_, _)
flagAncestors(stack, fn) ==
    LET p == parentFunction(stack, fn - 1)
    IN  IF p = 0 THEN stack
        ELSE flagAncestors(IF stack[p].type # "ArrowFunction"
                           THEN [stack EXCEPT ![p].createThisBinding = TRUE]
                           ELSE stack,
                           p)

\* Replacer.addTempVar(node): the stack after the call; the name is that of
\* the last temporary of the parent function
addTempVar(stack) ==
    LET p == parentFunction(stack, Len(stack))
    IN  [stack EXCEPT ![p].tempVars =
             Append(@, "__$" \o ToString(Len(stack[p].tempVars)))]

\* Replacer.addComputedName(node): the innermost object literal gets the
\* expression, the placeholder is __$<its index>
addComputedName(stack) ==
    LET p == CHOOSE j \in 1 .. Len(stack) :
                 /\ stack[j].type = "ObjectLiteral"
                 /\ \A k \in j + 1 .. Len(stack) :
                        stack[k].type # "ObjectLiteral"
        id == "__$" \o ToString(stack[p].computedNames)
        fn == parentFunction(stack, Len(stack))
    IN  [stack EXCEPT ![p].computedNames = @ + 1,
                      ![fn].placeholders = @ \cup {id}]

\* Replacer.tempVars(node): the declaration of the temporaries
tempVars(f) ==
    IF f.tempVars = << >> THEN << >>
    ELSE <<"var ">>
         \o Flatten([i \in 1 .. Len(f.tempVars) |->
                (IF i > 1 THEN <<", ">> ELSE << >>) \o <<f.tempVars[i]>>])
         \o <<";">>

\* Replacer.functionInsert(node), for a function without rest parameter,
\* defaults or patterns
functionInsert(f) ==
    tempVars(f)
    \o (IF f.createThisBinding THEN <<"var __this = this;">> ELSE << >>)

\* Replacer.Module(node): what it puts before the text of the module
ModuleInsert(f) ==
    (IF f.createThisBinding THEN <<"var __this = this;">> ELSE << >>)
    \o tempVars(f)

InFunctions ==
    /\ mode = "functions"
    /\ rep.phase = "visit"

\* visit(child) begins for a function, an arrow function or an object
\* literal
FnOpen ==
    /\ InFunctions
    /\ Len(rep.stack) < MaxOpenNodes
    /\ \E type \in {"FunctionDeclaration", "ArrowFunction", "ObjectLiteral"} :
         rep' = [rep EXCEPT !.stack = Append(@, FnFrame(type))]
    /\ UNCHANGED <<mode, input, scanner, root, parseVars, tr, err, rt>>

\* A declaration of the source: var name
FnVariableDeclaration ==
    /\ InFunctions
    /\ rep.count < MaxRewrites
    /\ \E name \in UserNames :
         LET p == parentFunction(rep.stack, Len(rep.stack))
         IN  rep' = [rep EXCEPT !.stack[p].idents = @ \cup {name},
                                !.count = @ + 1]
    /\ UNCHANGED <<mode, input, scanner, root, parseVars, tr, err, rt>>

\* Replacer.ThisExpression(node)
RepThisExpression ==
    /\ InFunctions
    /\ rep.count < MaxRewrites
    /\ LET fn == parentFunction(rep.stack, Len(rep.stack))
       IN  rep' = IF rep.stack[fn].type = "ArrowFunction"
                  THEN [rep EXCEPT
                           !.stack = [flagAncestors(rep.stack, fn) EXCEPT
                               ![NearestNonArrow(rep.stack)].thisAlias = TRUE],
                           !.count = @ + 1]
                  ELSE [rep EXCEPT !.count = @ + 1]
    /\ UNCHANGED <<mode, input, scanner, root, parseVars, tr, err, rt>>

\* Replacer.ForOfStatement(node): two temporaries
RepForOfStatement ==
    /\ InFunctions
    /\ rep.count < MaxRewrites
    /\ rep' = [rep EXCEPT !.stack = addTempVar(addTempVar(rep.stack)),
                          !.count = @ + 1]
    /\ UNCHANGED <<mode, input, scanner, root, parseVars, tr, err, rt>>

\* Replacer.ComputedPropertyName(node), inside an object literal
RepComputedPropertyName ==
    /\ InFunctions
    /\ rep.count < MaxRewrites
    /\ \E j \in 1 .. Len(rep.stack) : rep.stack[j].type = "ObjectLiteral"
    /\ rep' = [rep EXCEPT !.stack = addComputedName(rep.stack),
                          !.count = @ + 1]
    /\ UNCHANGED <<mode, input, scanner, root, parseVars, tr, err, rt>>

\* The replacer of the innermost open node, after its children:
\* FunctionBody and ArrowFunction call functionInsert, Module writes its
\* own insert and ends the visit
FnClose ==
    /\ InFunctions
    /\ LET n == Len(rep.stack)
           f == rep.stack[n]
       IN  rep' = IF f.type = "Module"
                  THEN [rep EXCEPT !.phase = "done",
                                   !.closed = f @@ [insert |-> ModuleInsert(f)]]
                  ELSE IF f.type = "ObjectLiteral"
                  THEN [rep EXCEPT !.stack = SubSeq(@, 1, n - 1)]
                  ELSE [rep EXCEPT
                           !.stack = SubSeq(@, 1, n - 1),
                           !.closed = f @@ [insert |-> functionInsert(f)]]
    /\ UNCHANGED <<mode, input, scanner, root, parseVars, tr, err, rt>>

InitFunctions ==
    /\ mode = "functions"
    /\ input = << >>
    /\ scanner = IdleScanner
    /\ root = NoRoot
    /\ ParserIdle
    /\ rep = [phase |-> "visit", stack |-> <<FnFrame("Module")>>,
              count |-> 0, closed |-> NoFunction]
    /\ tr = IdleTr
    /\ err = NoError
    /\ rt = IdleRt

NextFunctions ==
    \/ FnOpen
    \/ FnVariableDeclaration
    \/ RepThisExpression
    \/ RepForOfStatement
    \/ RepComputedPropertyName
    \/ FnClose

SpecFunctions == InitFunctions /\ [][NextFunctions]_vars

\* C15: in every function being rewritten, the temporaries have different
\* names, and no temporary has the name of an identifier the source declares
\* in that function or of a computed-name placeholder written in it.
TemporariesUnique ==
    mode = "functions" =>
        \A j \in 1 .. Len(rep.stack) :
            LET f == rep.stack[j]
            IN  /\ \A i, k \in 1 .. Len(f.tempVars) :
                       f.tempVars[i] = f.tempVars[k] => i = k
                /\ \A i \in 1 .. Len(f.tempVars) :
                       /\ f.tempVars[i] \notin f.idents
                       /\ f.tempVars[i] \notin f.placeholders

\* The first part of C15 alone: the temporaries of a function differ
TemporariesDiffer ==
    mode = "functions" =>
        \A j \in 1 .. Len(rep.stack) :
            \A i, k \in 1 .. Len(rep.stack[j].tempVars) :
                rep.stack[j].tempVars[i] = rep.stack[j].tempVars[k] => i = k

\* C17: a `this' inside an arrow function flags the nearest enclosing
\* function or program that is not an arrow function, and the text inserted
\* in front of that function's body declares var __this = this.
ThisAliasDeclared ==
    mode = "functions" =>
        /\ \A j \in 1 .. Len(rep.stack) :
               rep.stack[j].thisAlias => rep.stack[j].createThisBinding
        /\ rep.closed.thisAlias =>
               \E i \in 1 .. Len(rep.closed.insert) :
                   rep.closed.insert[i] = "var __this = this;"

\* a function declaration nested in another node has been rewritten, and an
\* arrow function in it held a `this'
AliasedFunctionClosed ==
    /\ mode = "functions"
    /\ rep.closed.type = "FunctionDeclaration"
    /\ rep.closed.thisAlias
    /\ Len(rep.stack) >= 2


-----------------------------------------------------------------------------
(* Duplicate names: the property definitions of one object literal and the
   elements of one class body, as the sequence of their kinds and names.
   The parser's nameSet and staticSet are kept in the one frame of
   callStack, with the verdict of isDuplicateName for each definition. *)

MaxDefinitions == 3    \* most definitions in one literal or class body

PropertyNames == {"a", "b"}

\* name: value, name, name() {}, get name() {}, set name(v) {}
ObjectKinds == {"data", "shorthand", "method", "get", "set"}

\* name() {}, get name() {}, set name(v) {}
ClassKinds == {"method", "get", "set"}

\* Parser.PropertyDefinition / Parser.ClassElement: the flag of a definition
PropertyFlag(kind) ==
    IF kind = "data" THEN PROP_ASSIGN
    ELSE IF kind = "get" THEN PROP_GET
    ELSE IF kind = "set" THEN PROP_SET
    ELSE PROP_NORMAL

\* Parser.ObjectExpression / Parser.ClassBody: nameSet = {}, staticSet = {}
NamesFrame(fn) ==
    [fn |-> fn, pc |-> "names", nameSet |-> << >>, staticSet |-> << >>,
     defs |-> << >>]

\* Parser.PropertyDefinition: a duplicate name is an invalid node of the
\* current context; the flag of the name is set
PropertyDefinitionNames ==
    /\ mode = "names"
    /\ status = "parsing"
    /\ Top.fn = "ObjectExpression"
    /\ Len(Top.defs) < MaxDefinitions
    /\ \E kind \in ObjectKinds, name \in PropertyNames :
         LET flag == PropertyFlag(kind)
             flags == Get(Top.nameSet, name)
             dup == isDuplicateName(Cur, flag, flags)
             q == IF dup
                  THEN addInvalidNode(Cur,
                           "Duplicate property names in object literal")
                  ELSE Cur
         IN  Commit([q EXCEPT !.callStack =
                        <<[Top EXCEPT
                             !.nameSet = Put(@, name, SetFlag(flags, flag)),
                             !.defs = Append(@, [kind |-> kind,
                                                 name |-> name,
                                                 static |-> FALSE,
                                                 dup |-> dup])]>>])

\* Parser.ClassElement: static elements have a name set of their own; a
\* duplicate name fails at once
ClassElementNames ==
    /\ mode = "names"
    /\ status = "parsing"
    /\ Top.fn = "ClassBody"
    /\ Len(Top.defs) < MaxDefinitions
    /\ \E isStatic \in BOOLEAN, kind \in ClassKinds, name \in PropertyNames :
         LET flag == PropertyFlag(kind)
             set == IF isStatic THEN Top.staticSet ELSE Top.nameSet
             flags == Get(set, name)
             dup == isDuplicateName(Cur, flag, flags)
             set1 == IF dup THEN set ELSE Put(set, name, SetFlag(flags, flag))
             q == IF dup THEN fail(Cur) ELSE Cur
         IN  Commit([q EXCEPT !.callStack =
                        <<[Top EXCEPT
                             !.nameSet = IF isStatic THEN @ ELSE set1,
                             !.staticSet = IF isStatic THEN set1 ELSE @,
                             !.defs = Append(@, [kind |-> kind,
                                                 name |-> name,
                                                 static |-> isStatic,
                                                 dup |-> dup])]>>])

\* An object literal in strict or non-strict code, or a class body (whose
\* context is strict) in either
InitNames ==
    /\ mode = "names"
    /\ input = << >>
    /\ scanner = IdleScanner
    /\ root = NoRoot
    /\ \E strict \in BOOLEAN, fn \in {"ObjectExpression", "ClassBody"} :
         LET p == pushContext([contextStack |-> << >>, sc |-> IdleScanner],
                              FALSE, strict)
         IN  /\ contextStack = IF fn = "ClassBody"
                               THEN pushContext(p, FALSE, TRUE).contextStack
                               ELSE p.contextStack
             /\ callStack = <<NamesFrame(fn)>>
    /\ peek0 = NoToken
    /\ peek1 = NoToken
    /\ endOffset = 0
    /\ node = NoNode
    /\ status = "parsing"
    /\ chunks = 0
    /\ complete = FALSE
    /\ lastStmt = NoStmt
    /\ lastPop = NoPop
    /\ rep = IdleRep
    /\ tr = IdleTr
    /\ err = NoError
    /\ rt = IdleRt

NextNames ==
    \/ PropertyDefinitionNames
    \/ ClassElementNames

SpecNames == InitNames /\ [][NextNames]_vars

\* A data property: name: value, a shorthand name, a method
IsData(kind) == kind \in {"data", "shorthand", "method"}

\* The matrix: data + data is an error in strict code only, get + set is
\* accepted, every other pair is an error
PairIsError(k1, k2, strict) ==
    IF IsData(k1) /\ IsData(k2) THEN strict
    ELSE {k1, k2} # {"get", "set"}

\* Definition i makes an error pair with an earlier definition of its name
\* in its name set
ExpectedDuplicate(defs, i, strict) ==
    \E j \in 1 .. i - 1 :
        /\ defs[j].name = defs[i].name
        /\ defs[j].static = defs[i].static
        /\ PairIsError(defs[j].kind, defs[i].kind, strict)

\* C20: every definition of an object literal or class body is judged a
\* duplicate exactly when the matrix makes it an error pair with an earlier
\* definition of the same name in the same name set (data + data in strict
\* code, the same accessor kind twice, data + accessor; never get + set).
DuplicatesByMatrix ==
    mode = "names" =>
        \A i \in 1 .. Len(Top.defs) :
            Top.defs[i].dup
                = ExpectedDuplicate(Top.defs, i, Context(Cur).strict)

\* C20 for class bodies, and for object literals all of whose properties
\* are written name: value or as accessors
DuplicatesByMatrixWritten ==
    (/\ mode = "names"
     /\ \/ Top.fn = "ClassBody"
        \/ \A i \in 1 .. Len(Top.defs) :
               Top.defs[i].kind \in {"data", "get", "set"})
        => \A i \in 1 .. Len(Top.defs) :
               Top.defs[i].dup
                   = ExpectedDuplicate(Top.defs, i, Context(Cur).strict)

-----------------------------------------------------------------------------
(* The runtime library (runtime/API.js, build/es6now.js).  The variables of
   the scanner, parser, replacer and translator stay idle. *)

libVars == <<input, scanner, root, parseVars, rep, tr, err>>

LibraryIdle ==
    /\ input = << >>
    /\ scanner = IdleScanner
    /\ root = NoRoot
    /\ ParserIdle
    /\ rep = IdleRep
    /\ tr = IdleTr
    /\ err = NoError

\* Values passed to and from generators and promises
Values == {"x", "y"}

\* A promise that has not settled
Pending == [state |-> "pending", value |-> UNDEF]

\* resolve / reject of a promise: the first call decides
settle(promise, state, value) ==
    IF promise.state = "pending" THEN [state |-> state, value |-> value]
    ELSE promise

\* How a promise may settle; Promise.resolve of a value that is not a promise
\* is fulfilled with the value
Settlements(yielded) ==
    IF yielded.isPromise
    THEN [state : {"fulfilled", "rejected"}, value : Values]
    ELSE {[state |-> "fulfilled", value |-> yielded.value]}

-----------------------------------------------------------------------------
(* async(iter): API.async in its two versions and asyncFunction.  The
   generator is any generator: resumed, it yields a promise or a value,
   returns or throws. *)

MaxAwaits == 3      \* most values one generator yields

\* The reactions of async always resume with "next"
resumeNext(settlement) == "next"

\* then(x => resume("next", x), x => resume("throw", x))
resumeType(settlement) ==
    IF settlement.state = "fulfilled" THEN "next" ELSE "throw"

\* What iter[type](value) may do
GeneratorSteps(yields) ==
    (IF yields < MaxAwaits
     THEN [kind : {"yield"}, isPromise : BOOLEAN, value : Values]
     ELSE { })
    \cup [kind : {"return", "throw"}, isPromise : {FALSE}, value : Values]

\* resume(type, value): iter[type](value), then resolve, reject or wait
AsyncResume ==
    /\ mode = "async"
    /\ rt.phase = "resume"
    /\ \E step \in GeneratorSteps(Len(rt.settlements)) :
         LET called == [rt EXCEPT !.calls = Append(@, [type |-> rt.type,
                                                       value |-> rt.value])]
         IN  rt' =
               IF step.kind = "yield"
               THEN [called EXCEPT !.phase = "await",
                                   !.awaited = [isPromise |-> step.isPromise,
                                                value |-> step.value]]
               ELSE IF step.kind = "return"
               THEN IF rt.viaThen
                    THEN [called EXCEPT !.phase = "return",
                                        !.value = step.value,
                                        !.result = [kind |-> "return",
                                                    value |-> step.value]]
                    ELSE [called EXCEPT
                            !.phase = "settled",
                            !.result = [kind |-> "return",
                                        value |-> step.value],
                            !.settleCalls = @ + 1,
                            !.outcome = settle(@, "fulfilled", step.value)]
               ELSE [called EXCEPT
                       !.phase = "settled",
                       !.result = [kind |-> "throw", value |-> step.value],
                       !.settleCalls = @ + 1,
                       !.outcome = settle(@, "rejected", step.value)]
    /\ UNCHANGED <<mode, libVars>>

\* The promise yielded settles; its reaction will call resume
AsyncAwaited ==
    /\ mode = "async"
    /\ rt.phase = "await"
    /\ \E s \in Settlements(rt.awaited) :
         rt' = [rt EXCEPT !.phase = "resume",
                          !.settlements = Append(@, s),
                          !.type = resumeType(s),
                          !.value = s.value]
    /\ UNCHANGED <<mode, libVars>>

\* API.async (the later version): Promise.resolve(result.value)
\* .then(resolver.resolve, resolver.reject) when the generator is done
AsyncReturn ==
    /\ mode = "async"
    /\ rt.phase = "return"
    /\ rt' = [rt EXCEPT !.phase = "settled",
                        !.settleCalls = @ + 1,
                        !.outcome = settle(@, "fulfilled", rt.value)]
    /\ UNCHANGED <<mode, libVars>>

\* async(iter) has been called: resume("next", void 0) is about to run
InitAsync ==
    /\ mode = "async"
    /\ LibraryIdle
    /\ \E viaThen \in BOOLEAN :
         rt = [phase |-> "resume", viaThen |-> viaThen,
               type |-> "next", value |-> UNDEF,
               awaited |-> [isPromise |-> FALSE, value |-> UNDEF],
               calls |-> << >>, settlements |-> << >>,
               result |-> [kind |-> "none", value |-> UNDEF],
               settleCalls |-> 0, outcome |-> Pending]

NextAsync ==
    \/ AsyncResume
    \/ AsyncAwaited
    \/ AsyncReturn

SpecAsync == InitAsync /\ [][NextAsync]_vars

-----------------------------------------------------------------------------
(* Observable.subscribe and ObserverSink (unnamed/part_000).  One
   subscription: the initializer runs, subscribe returns the cancellation
   function, and the producer and the subscriber call the sink and the
   cancellation function in any order.  The termination function is the
   subscriber's code: on its first call it may cancel the subscription or
   call return on the sink, which is how a termination function unsubscribes
   on teardown. *)

MaxEvents == 3      \* most calls of sink methods and of the cancellation

\* What the termination function does when it is called for the first time
Reentries == {"none", "cancel", "return"}

\* The observer's method runs
notify(s, name) ==
    [s EXCEPT !.log = Append(@, name),
              !.afterCancel = IF s.cancelled THEN @ + 1 ELSE @]

RECURSIVE close(_, _), stopCall(_), sinkReturn(_)

\* ObserverSink._close(done)
close(s, done) ==
    LET s1 == IF done THEN [s EXCEPT !.done = TRUE] ELSE s
    IN  IF s1.stop THEN [stopCall(s1) EXCEPT !.stop = FALSE] ELSE s1

\* this._stop.call(undefined)
stopCall(s) ==
    LET s1 == [s EXCEPT !.stopCalls = @ + 1]
    IN  IF s.stopCalls = 0 /\ s.reenter = "cancel" THEN close(s1, FALSE)
        ELSE IF s.stopCalls = 0 /\ s.reenter = "return" THEN sinkReturn(s1)
        ELSE s1

\* ObserverSink.return(value)
sinkReturn(s) ==
    IF s.done THEN s
    ELSE LET s1 == [s EXCEPT !.done = TRUE]
         IN  IF ~s.observer.hasReturn THEN close(s1, FALSE)
             ELSE close(notify(s1, "return"), FALSE)

\* ObserverSink.throw(value)
sinkThrow(s) ==
    IF s.done THEN s
    ELSE LET s1 == [s EXCEPT !.done = TRUE]
         IN  IF ~s.observer.hasThrow THEN close(s1, FALSE)
             ELSE close(notify(s1, "throw"), FALSE)

\* ObserverSink.next(value); result is what observer.next does: "ok",
\* "done" for a result with done set, "throw"
sinkNext(s, result) ==
    IF s.done THEN s
    ELSE LET s1 == notify(s, "next")
         IN  IF result \in {"throw", "done"} THEN close(s1, TRUE) ELSE s1

Event(s) == [s EXCEPT !.events = @ + 1]

Subscribing ==
    /\ mode = "observable"
    /\ rt.phase \in {"init", "subscribed"}
    /\ rt.events < MaxEvents

\* The producer sends a value
SinkNext ==
    /\ Subscribing
    /\ \E result \in {"ok", "done", "throw"} :
           rt' = sinkNext(Event(rt), result)
    /\ UNCHANGED <<mode, libVars>>

\* The producer sends an error
SinkThrow ==
    /\ Subscribing
    /\ rt' = sinkThrow(Event(rt))
    /\ UNCHANGED <<mode, libVars>>

\* The producer ends the stream
SinkReturn ==
    /\ Subscribing
    /\ rt' = sinkReturn(Event(rt))
    /\ UNCHANGED <<mode, libVars>>

\* Observable.subscribe after the initializer: it threw, or it returned the
\* termination function (or nothing)
SubscribeEnd ==
    /\ mode = "observable"
    /\ rt.phase = "init"
    /\ \E threw \in BOOLEAN, hasStop \in BOOLEAN :
         rt' = IF threw
               THEN [sinkThrow(rt) EXCEPT !.phase = "failed"]
               ELSE LET s == [rt EXCEPT !.stop = hasStop]
                    IN  [(IF s.done THEN close(s, FALSE) ELSE s)
                            EXCEPT !.phase = "subscribed"]
    /\ UNCHANGED <<mode, libVars>>

\* The cancellation function returned by subscribe: _ => { sink._close() }
Cancel ==
    /\ mode = "observable"
    /\ rt.phase = "subscribed"
    /\ rt.events < MaxEvents
    /\ rt' = [close(Event(rt), FALSE) EXCEPT
                !.cancelled = TRUE,
                !.closedBefore = IF rt.cancelled THEN @ ELSE rt.done]
    /\ UNCHANGED <<mode, libVars>>

\* subscribe(observer) has made the sink and calls the initializer
InitObservable ==
    /\ mode = "observable"
    /\ LibraryIdle
    /\ \E hasThrow \in BOOLEAN, hasReturn \in BOOLEAN, reenter \in Reentries :
         rt = [phase |-> "init",
               observer |-> [hasThrow |-> hasThrow, hasReturn |-> hasReturn],
               reenter |-> reenter, done |-> FALSE, stop |-> FALSE,
               stopCalls |-> 0, log |-> << >>, cancelled |-> FALSE,
               closedBefore |-> FALSE, afterCancel |-> 0, events |-> 0]

NextObservable ==
    \/ SinkNext
    \/ SinkThrow
    \/ SinkReturn
    \/ SubscribeEnd
    \/ Cancel

SpecObservable == InitObservable /\ [][NextObservable]_vars

\* C24: the termination function of a subscription is called at most once,
\* whatever the order of next, throw, return and cancellation, and also
\* when the termination function itself cancels or returns.
StopCalledOnce ==
    mode = "observable" => rt.stopCalls <= 1

\* C24 for termination functions that call nothing of the subscription
StopCalledOnceFromOutside ==
    (mode = "observable" /\ rt.reenter = "none") => rt.stopCalls <= 1

\* C25: once the cancellation function has been called, return has been
\* called on an observer that has the method and was not closed before, the
\* sink is closed, and the observer receives no notification any more.
CancelClosesSink ==
    (mode = "observable" /\ rt.cancelled) =>
        /\ rt.done
        /\ rt.afterCancel = 0
        /\ (rt.observer.hasReturn /\ ~rt.closedBefore) =>
               \E i \in 1 .. Len(rt.log) : rt.log[i] = "return"

-----------------------------------------------------------------------------
(* ModuleInstaller.install (build/es6now.js).  One installer; install is
   called at any time.  this.action is set by install and cleared by the
   reactions at the end of its promise chain.  rt.installs has one record
   for each installation that was started. *)

MaxInstalls == 3    \* most calls of install on the installer

\* An installation whose promise has not settled
Unsettled(installs) ==
    \E i \in 1 .. Len(installs) : installs[i].promise = "pending"

\* install(url): throws when this.action is set, else starts the download
Install ==
    /\ mode = "installer"
    /\ rt.calls < MaxInstalls
    /\ LET last == [threw |-> rt.action,
                    earlierPending |-> Unsettled(rt.installs)]
       IN  rt' = IF rt.action
                 THEN [rt EXCEPT !.calls = @ + 1, !.last = last]
                 ELSE [rt EXCEPT !.calls = @ + 1, !.last = last,
                                 !.action = TRUE,
                                 !.installs =
                                     Append(@, [phase |-> "starting",
                                                promise |-> "pending"])]
    /\ UNCHANGED <<mode, libVars>>

\* Download.begin: Promise.resolve(startURL).then(visit).  visit dispatches
\* "fetch-begin"; a listener that calls event.cancel(err) makes dispatch
\* throw, and nothing handles the rejection of this promise
InstallVisit ==
    /\ mode = "installer"
    /\ \E i \in 1 .. Len(rt.installs), cancelled \in BOOLEAN :
         /\ rt.installs[i].phase = "starting"
         /\ rt' = [rt EXCEPT !.installs[i].phase =
                                 IF cancelled THEN "failedToStart"
                                 ELSE "running"]
    /\ UNCHANGED <<mode, libVars>>

\* The download and the moves are done: then(val => { this.action = null;
\* return this }) fulfils the promise of install
InstallFulfilled ==
    /\ mode = "installer"
    /\ \E i \in 1 .. Len(rt.installs) :
         /\ rt.installs[i].phase = "running"
         /\ rt' = [rt EXCEPT !.action = FALSE,
                             !.installs[i] = [phase |-> "fulfilled",
                                              promise |-> "fulfilled"]]
    /\ UNCHANGED <<mode, libVars>>

\* The download or a move failed: catch(err => { this.action = null;
\* throw err })
InstallCatch ==
    /\ mode = "installer"
    /\ \E i \in 1 .. Len(rt.installs) :
         /\ rt.installs[i].phase = "running"
         /\ rt' = [rt EXCEPT !.action = FALSE,
                             !.installs[i].phase = "caught"]
    /\ UNCHANGED <<mode, libVars>>

\* The rejection of the catch promise passes through the last then, in a
\* job of its own: the promise of install is rejected
InstallRejected ==
    /\ mode = "installer"
    /\ \E i \in 1 .. Len(rt.installs) :
         /\ rt.installs[i].phase = "caught"
         /\ rt' = [rt EXCEPT !.installs[i] = [phase |-> "rejected",
                                              promise |-> "rejected"]]
    /\ UNCHANGED <<mode, libVars>>

\* new ModuleInstaller(folder): this.action = null
InitInstaller ==
    /\ mode = "installer"
    /\ LibraryIdle
    /\ rt = [action |-> FALSE, calls |-> 0, installs |-> << >>,
             last |-> [threw |-> FALSE, earlierPending |-> FALSE]]

NextInstaller ==
    \/ Install
    \/ InstallVisit
    \/ InstallFulfilled
    \/ InstallCatch
    \/ InstallRejected

SpecInstaller == InitInstaller /\ [][NextInstaller]_vars

\* C26: a call of install throws "Already installing." exactly when the
\* promise of an earlier installation has not settled, and when every
\* installation has fulfilled, rejected or failed to start, this.action is
\* clear, so that the next call is accepted.
InstallRefusedWhileInstalling ==
    mode = "installer" =>
        /\ rt.last.threw = rt.last.earlierPending
        /\ (\A i \in 1 .. Len(rt.installs) :
                rt.installs[i].phase
                    \in {"fulfilled", "rejected", "failedToStart"})
               => ~rt.action

\* C26 without the installations that fail to start and without the job
\* between the catch reaction and the rejection
InstallAcceptedAfterSettled ==
    mode = "installer" =>
        /\ rt.last.threw => rt.last.earlierPending
        /\ (\A i \in 1 .. Len(rt.installs) :
                rt.installs[i].phase \in {"fulfilled", "rejected"})
               => ~rt.action

-----------------------------------------------------------------------------
(* asyncGen(waitToken, iterable) of runtime/API.js: the requests wait in a
   queue.  A request carries what the generator will do when it is resumed
   for it: first, and second if the first was to await a promise. *)

MaxRequests == 3    \* most calls of next, throw and return

RequestTypes == {"next", "throw", "return"}

\* type in iter
HasMethod(iter, type) ==
    \/ type = "next"
    \/ type = "throw" /\ iter.hasThrow
    \/ type = "return" /\ iter.hasReturn

\* queue.shift().resolve(result) or queue.shift().reject(x)
shiftQueue(s, how) ==
    [s EXCEPT !.requests[Head(s.queue)].promise = how, !.queue = Tail(@)]

RECURSIVE nextRequest(_), resumeRequest(_, _, _)

\* resume(type, value); stage 2 is the call from the reaction of the promise
\* awaited
resumeRequest(s, type, stage) ==
    IF ~HasMethod(s.iter, type) THEN shiftQueue(s, "rejected")
    ELSE LET r == s.requests[Head(s.queue)]
             out == IF stage = 1 THEN r.first ELSE r.second
         IN  IF out = "await" THEN [s EXCEPT !.awaiting = TRUE]
             ELSE nextRequest(shiftQueue(s, IF out = "throw" THEN "rejected"
                                            ELSE "resolved"))

\* next()
nextRequest(s) ==
    IF s.queue # << >>
    THEN resumeRequest([s EXCEPT !.state = "running"],
                       s.requests[Head(s.queue)].type, 1)
    ELSE [s EXCEPT !.state = "paused"]

\* enqueue(type, value), called by next, throw and return of the wrapper
Enqueue ==
    /\ mode = "asyncQueue"
    /\ Len(rt.requests) < MaxRequests
    /\ \E type \in RequestTypes, first \in {"await", "result", "throw"},
          second \in {"result", "throw"} :
         LET s == [rt EXCEPT
                     !.requests = Append(@, [type |-> type, first |-> first,
                                             second |-> second,
                                             promise |-> "pending"]),
                     !.queue = Append(@, Len(rt.requests) + 1)]
         IN  rt' = IF rt.state = "paused" THEN nextRequest(s) ELSE s
    /\ UNCHANGED <<mode, libVars>>

\* The promise awaited settles: x => resume("next", x) or
\* x => resume("throw", x)
QueueAwaited ==
    /\ mode = "asyncQueue"
    /\ rt.awaiting
    /\ \E fulfilled \in BOOLEAN :
         rt' = resumeRequest([rt EXCEPT !.awaiting = FALSE],
                             IF fulfilled THEN "next" ELSE "throw", 2)
    /\ UNCHANGED <<mode, libVars>>

\* asyncGen(waitToken, iterable): state = "paused", queue = []
InitAsyncQueue ==
    /\ mode = "asyncQueue"
    /\ LibraryIdle
    /\ \E hasThrow \in BOOLEAN, hasReturn \in BOOLEAN :
         rt = [iter |-> [hasThrow |-> hasThrow, hasReturn |-> hasReturn],
               state |-> "paused", queue |-> << >>, awaiting |-> FALSE,
               requests |-> << >>]

NextAsyncQueue ==
    \/ Enqueue
    \/ QueueAwaited

SpecAsyncQueue == InitAsyncQueue /\ [][NextAsyncQueue]_vars

\* C27: when no awaited promise is outstanding every request made has been
\* settled, the queue is empty and the state is "paused", so that the next
\* request starts at once; while a promise is awaited the request at the head
\* of the queue is the one being served.
RequestsSettled ==
    mode = "asyncQueue" =>
        IF rt.awaiting
        THEN rt.state = "running" /\ rt.queue # << >>
        ELSE /\ rt.state = "paused"
             /\ rt.queue = << >>
             /\ \A i \in 1 .. Len(rt.requests) :
                    rt.requests[i].promise # "pending"

\* C27 for iterators that have the three methods
RequestsSettledByGenerators ==
    (mode = "asyncQueue" /\ rt.iter.hasThrow /\ rt.iter.hasReturn) =>
        IF rt.awaiting
        THEN rt.state = "running" /\ rt.queue # << >>
        ELSE /\ rt.state = "paused"
             /\ rt.queue = << >>
             /\ \A i \in 1 .. Len(rt.requests) :
                    rt.requests[i].promise # "pending"

-----------------------------------------------------------------------------
(* The async generator wrappers that resume the generator at once:
   asyncGen(iter) of runtime/API.js (one request at a time, "current"),
   asyncGenerator of build/es6now.js (a linked list of requests, "list") and
   asyncGen of build/es6now.js ("settle").  The generator has next, throw
   and return.  A request carries what the generator will do when it is
   resumed for it: await a promise, yield a value, yield null, return or
   throw. *)

Wrappers == {"current", "list", "settle"}

\* The request at the front of the list
Front(s) == Head(s.queue)

Logged(s, op, id) == [s EXCEPT !.log = Append(@, [op |-> op, id |-> id])]

RECURSIVE resumeGenerator(_, _), fulfill(_, _)

\* fulfill(type, value) / settle(type, value); current.resolve,
\* current.reject and current = null in the first wrapper
fulfill(s, kind) ==
    LET s1 == [Logged(s, "settle", Front(s)) EXCEPT
                 !.requests[Front(s)].promise =
                     IF kind \in {"throw", "typeError"} THEN "rejected"
                     ELSE "resolved",
                 !.requests[Front(s)].result = kind,
                 !.queue = Tail(@)]
    IN  IF s.wrapper # "current" /\ s1.queue # << >>
        THEN resumeGenerator(s1, 1)
        ELSE s1

\* resume(type, value): iter[type](value) and what follows.  "_esdown_await"
\* in value throws a TypeError for null where the test is
\* typeof value === "object"
resumeGenerator(s, stage) ==
    LET r == s.requests[Front(s)]
        out == IF stage = 1 THEN r.first ELSE r.second
        s1 == Logged(s, "resume", Front(s))
    IN  IF out = "throw" THEN fulfill(s1, "throw")
        ELSE IF out = "null" /\ s.wrapper \in {"current", "list"}
        THEN fulfill(s1, "typeError")
        ELSE IF out = "await" THEN [s1 EXCEPT !.waiting = "await"]
        ELSE IF s.wrapper = "list"
        THEN [s1 EXCEPT !.waiting = "value", !.pending = out]
        ELSE fulfill(s1, out)

\* send(type, value), called by next, throw and return of the wrapper
Send ==
    /\ mode = "asyncGen"
    /\ Len(rt.requests) < MaxRequests
    /\ \E type \in RequestTypes,
          first \in {"await", "yield", "null", "return", "throw"},
          second \in {"yield", "null", "return", "throw"} :
         LET id == Len(rt.requests) + 1
             r == [type |-> type, first |-> first, second |-> second,
                   promise |-> "pending", result |-> "none"]
         IN  rt' =
               IF rt.wrapper = "current" /\ rt.queue # << >>
               THEN Logged([rt EXCEPT
                              !.requests =
                                  Append(@, [r EXCEPT
                                               !.promise = "rejected",
                                               !.result = "busy"])],
                           "settle", id)
               ELSE LET s == [rt EXCEPT !.requests = Append(@, r),
                                        !.queue = Append(@, id)]
                    IN  IF rt.queue = << >> THEN resumeGenerator(s, 1)
                        ELSE s
    /\ UNCHANGED <<mode, libVars>>

\* The promise awaited settles: x => resume("next", x) or
\* x => resume("throw", x)
GeneratorAwaited ==
    /\ mode = "asyncGen"
    /\ rt.waiting = "await"
    /\ rt' = resumeGenerator([rt EXCEPT !.waiting = "none"], 2)
    /\ UNCHANGED <<mode, libVars>>

\* asyncGenerator: Promise.resolve(result.value).then(x => fulfill(...))
GeneratorFulfill ==
    /\ mode = "asyncGen"
    /\ rt.waiting = "value"
    /\ rt' = fulfill([rt EXCEPT !.waiting = "none", !.pending = "none"],
                     rt.pending)
    /\ UNCHANGED <<mode, libVars>>

\* asyncGen(iter) / asyncGenerator(iter)
InitAsyncGen ==
    /\ mode = "asyncGen"
    /\ LibraryIdle
    /\ \E wrapper \in Wrappers :
         rt = [wrapper |-> wrapper, queue |-> << >>, waiting |-> "none",
               pending |-> "none", requests |-> << >>, log |-> << >>]

NextAsyncGen ==
    \/ Send
    \/ GeneratorAwaited
    \/ GeneratorFulfill

SpecAsyncGen == InitAsyncGen /\ [][NextAsyncGen]_vars

\* What the generator produced for a request
Produced(r) == IF r.first = "await" THEN r.second ELSE r.first

\* The generator is resumed for a request only after every earlier request
\* has been settled, and no request is settled twice
OneAtATime(log) ==
    /\ \A p \in 1 .. Len(log) :
           log[p].op = "resume" =>
               \A i \in 1 .. log[p].id - 1 :
                   \E q \in 1 .. p - 1 :
                       log[q] = [op |-> "settle", id |-> i]
    /\ \A p, q \in 1 .. Len(log) :
           (log[p].op = "settle" /\ log[q] = log[p]) => p = q

\* C28: the generator is never resumed for a request before the promises of
\* the requests made earlier are settled; the promise of each request is
\* settled once, with what the generator produced when it was resumed for
\* that request.
ServedInCallOrder ==
    mode = "asyncGen" =>
        /\ OneAtATime(rt.log)
        /\ \A i \in 1 .. Len(rt.requests) :
               rt.requests[i].promise # "pending" =>
                   rt.requests[i].result = Produced(rt.requests[i])

\* C28 for the order of service alone
ServedOneAtATime ==
    mode = "asyncGen" => OneAtATime(rt.log)

\* C28 for asyncGen of build/es6now.js
ServedInCallOrderBySettle ==
    (mode = "asyncGen" /\ rt.wrapper = "settle") =>
        /\ OneAtATime(rt.log)
        /\ \A i \in 1 .. Len(rt.requests) :
               rt.requests[i].promise # "pending" =>
                   rt.requests[i].result = Produced(rt.requests[i])

-----------------------------------------------------------------------------
(* The Promise polyfill of build/es6now.js: one promise, whose resolver
   functions fulfill, resolve and reject are called in any order, with
   values and with thenables that settle later. *)

MaxResolverCalls == 3    \* most calls of the resolver functions

Thenables == {"t1", "t2"}

\* fulfill(val)
promiseFulfill(p, val) ==
    IF p.state # "pending" THEN p
    ELSE [p EXCEPT !.state = "fulfilled", !.value = val]

\* reject(error)
promiseReject(p, error) ==
    IF p.state # "pending" THEN p
    ELSE [p EXCEPT !.state = "rejected", !.value = error]

\* resolve(value): value.then(fulfill, reject) for a thenable, which is
\* pending; else fulfill(value)
promiseResolve(p, value) ==
    IF p.state # "pending" THEN p
    ELSE IF value \in Thenables
    THEN [p EXCEPT !.subscribed = @ \cup {value}]
    ELSE promiseFulfill(p, value)

\* A call of a resolver function, written down
Called(p, fn, arg) ==
    [p EXCEPT !.calls = Append(@, [fn |-> fn, arg |-> arg])]

ResolverCall ==
    /\ mode = "promise"
    /\ Len(rt.calls) < MaxResolverCalls

Fulfill ==
    /\ ResolverCall
    /\ \E val \in Values : rt' = promiseFulfill(Called(rt, "fulfill", val), val)
    /\ UNCHANGED <<mode, libVars>>

Reject ==
    /\ ResolverCall
    /\ \E error \in Values :
           rt' = promiseReject(Called(rt, "reject", error), error)
    /\ UNCHANGED <<mode, libVars>>

Resolve ==
    /\ ResolverCall
    /\ \E value \in Values \cup Thenables :
           rt' = promiseResolve(Called(rt, "resolve", value), value)
    /\ UNCHANGED <<mode, libVars>>

\* A thenable given to resolve settles and calls the fulfill or reject it
\* was given
ThenableSettles ==
    /\ mode = "promise"
    /\ \E t \in rt.subscribed, fulfilled \in BOOLEAN, v \in Values :
         /\ rt.settled[t] = Pending
         /\ LET p == [rt EXCEPT !.settled[t] =
                                    [state |-> IF fulfilled THEN "fulfilled"
                                               ELSE "rejected",
                                     value |-> v]]
            IN  rt' = IF fulfilled THEN promiseFulfill(p, v)
                      ELSE promiseReject(p, v)
    /\ UNCHANGED <<mode, libVars>>

\* new Promise(init): state = PENDING
InitPromise ==
    /\ mode = "promise"
    /\ LibraryIdle
    /\ rt = [state |-> "pending", value |-> UNDEF, subscribed |-> { },
             settled |-> [t \in Thenables |-> Pending], calls |-> << >>]

NextPromise ==
    \/ Fulfill
    \/ Reject
    \/ Resolve
    \/ ThenableSettles

SpecPromise == InitPromise /\ [][NextPromise]_vars

\* The outcome that the first call of a resolver function asks for
FirstOutcome(p) ==
    LET c == p.calls[1]
    IN  IF c.fn = "reject" THEN [state |-> "rejected", value |-> c.arg]
        ELSE IF c.fn = "resolve" /\ c.arg \in Thenables THEN p.settled[c.arg]
        ELSE [state |-> "fulfilled", value |-> c.arg]

\* C29: the state and value of the promise are those the first call of
\* fulfill, resolve or reject asks for -- for resolve with a thenable, pending
\* until the thenable settles and then settled as the thenable -- whatever is
\* called later.
FirstCallDecides ==
    (mode = "promise" /\ rt.calls # << >>) =>
        [state |-> rt.state, value |-> rt.value] = FirstOutcome(rt)

\* C29 when the first call is not resolve with a thenable
FirstSettlingCallDecides ==
    (/\ mode = "promise"
     /\ rt.calls # << >>
     /\ ~(rt.calls[1].fn = "resolve" /\ rt.calls[1].arg \in Thenables))
        => [state |-> rt.state, value |-> rt.value] = FirstOutcome(rt)

-----------------------------------------------------------------------------
(* Download.begin of build/es6now.js: the start URL is visited, every
   visited URL is fetched, written to a temporary file unless its protocol
   is "file:", and analysed for the URLs it depends on, which are visited in
   turn.  Each callback of a promise chain is one action, so the fetches
   and writes of different URLs complete in any order. *)

DownloadURLs == {"http://a", "http://b", "http://c", "file:d"}

StartURL == "http://a"

getProtocol(url) == IF url = "file:d" THEN "file:" ELSE "http:"

\* visit(url)
visit(d, url) ==
    IF url \in d.visited THEN d
    ELSE [d EXCEPT !.visited = @ \cup {url},
                   !.pending = @ + 1,
                   !.fetches[url] = @ + 1,
                   !.stage[url] = "fetching"]

\* extractDependencies(...).forEach(visit)
RECURSIVE visitAll(_, _)
visitAll(d, urls) ==
    IF urls = { } THEN d
    ELSE LET url == CHOOSE u \in urls : TRUE
         IN  visitAll(visit(d, url), urls \ {url})

\* The catch callback of the chain of url: resolver.reject(error = err);
\* every temporary file in downloads is deleted; downloads.clear()
failure(d, url, e) ==
    [d EXCEPT !.stage[url] = "failed",
              !.error = e,
              !.promise = IF @ = "pending" THEN "rejected" ELSE @,
              !.files = [u \in DownloadURLs |->
                             IF u \in d.downloads THEN "deleted" ELSE @[u]],
              !.downloads = { }]

\* Promise.resolve(startURL).then(visit)
DownloadStart ==
    /\ mode = "download"
    /\ ~rt.started
    /\ rt' = visit([rt EXCEPT !.started = TRUE], StartURL)
    /\ UNCHANGED <<mode, libVars>>

\* fetch.begin(url) is fulfilled: the first callback of the chain
FetchResolved ==
    /\ mode = "download"
    /\ \E url \in DownloadURLs :
         /\ rt.stage[url] = "fetching"
         /\ rt' = [rt EXCEPT !.stage[url] =
                       IF rt.error # "null" THEN "dropped"
                       ELSE IF getProtocol(url) = "file:" THEN "fetched"
                       ELSE "writing"]
    /\ UNCHANGED <<mode, libVars>>

\* fetch.begin(url) is rejected
FetchRejected ==
    /\ mode = "download"
    /\ \E url \in DownloadURLs :
         /\ rt.stage[url] = "fetching"
         /\ rt' = failure(rt, url, "fetch error")
    /\ UNCHANGED <<mode, libVars>>

\* TempFile.of(code) is fulfilled: tmp.url = url; downloads.set(url, tmp)
WriteResolved ==
    /\ mode = "download"
    /\ \E url \in DownloadURLs :
         /\ rt.stage[url] = "writing"
         /\ rt' = [rt EXCEPT !.files[url] = "written",
                             !.downloads = @ \cup {url},
                             !.stage[url] = "fetched"]
    /\ UNCHANGED <<mode, libVars>>

\* TempFile.of(code) is rejected
WriteRejected ==
    /\ mode = "download"
    /\ \E url \in DownloadURLs :
         /\ rt.stage[url] = "writing"
         /\ rt' = failure(rt, url, "write error")
    /\ UNCHANGED <<mode, libVars>>

\* The second callback of the chain: the dependencies are visited, pending
\* is decremented and at zero the promise is resolved
Analyze ==
    /\ mode = "download"
    /\ \E url \in DownloadURLs, deps \in SUBSET DownloadURLs :
         /\ rt.stage[url] = "fetched"
         /\ rt' = IF rt.error # "null" THEN [rt EXCEPT !.stage[url] = "dropped"]
                  ELSE LET d == visitAll(rt, deps)
                           e == [d EXCEPT !.pending = @ - 1,
                                          !.stage[url] = "done"]
                       IN  IF e.pending = 0 /\ e.promise = "pending"
                           THEN [e EXCEPT !.promise = "fulfilled"]
                           ELSE e
    /\ UNCHANGED <<mode, libVars>>

\* extractDependencies throws on code that does not parse
AnalyzeThrows ==
    /\ mode = "download"
    /\ \E url \in DownloadURLs :
         /\ rt.stage[url] = "fetched"
         /\ rt.error = "null"
         /\ rt' = failure(rt, url, "parse error")
    /\ UNCHANGED <<mode, libVars>>

\* begin(startURL, dispatch), up to its return
InitDownload ==
    /\ mode = "download"
    /\ LibraryIdle
    /\ rt = [started |-> FALSE, visited |-> { }, downloads |-> { },
             pending |-> 0, error |-> "null", promise |-> "pending",
             stage |-> [u \in DownloadURLs |-> "unvisited"],
             fetches |-> [u \in DownloadURLs |-> 0],
             files |-> [u \in DownloadURLs |-> "none"]]

NextDownload ==
    \/ DownloadStart
    \/ FetchResolved
    \/ FetchRejected
    \/ WriteResolved
    \/ WriteRejected
    \/ Analyze
    \/ AnalyzeThrows

SpecDownload == InitDownload /\ [][NextDownload]_vars

\* No callback of the download is still to run
Quiescent ==
    /\ rt.started
    /\ \A u \in DownloadURLs :
           rt.stage[u] \in {"unvisited", "done", "dropped", "failed"}

Failed == \E u \in DownloadURLs : rt.stage[u] = "failed"

FetchedOnce == \A u \in DownloadURLs : rt.fetches[u] <= 1

FulfilledWhenAllDone ==
    rt.promise = "fulfilled" => \A u \in rt.visited : rt.stage[u] = "done"

RejectedAfterFailure == Failed => rt.promise = "rejected"

NoTempFileLeft ==
    (Failed /\ Quiescent) => \A u \in DownloadURLs : rt.files[u] # "written"

\* C30: each URL is fetched at most once, the promise is fulfilled only when
\* every visited URL has been fetched and analysed, and after a failure the
\* promise is rejected and, once the callbacks have run, no temporary file
\* of the download is left undeleted.
DownloadSettlesCleanly ==
    mode = "download" =>
        /\ FetchedOnce
        /\ FulfilledWhenAllDone
        /\ RejectedAfterFailure
        /\ NoTempFileLeft

\* C30 without the temporary files written after the failure: those that
\* were in downloads when the failure was caught are deleted
DownloadSettles ==
    mode = "download" =>
        /\ FetchedOnce
        /\ FulfilledWhenAllDone
        /\ RejectedAfterFailure
        /\ \A u \in DownloadURLs :
               (rt.files[u] = "written" /\ Failed) => u \in rt.downloads

=============================================================================
